---- MODULE Spec2Model ----
(***************************************************************************)
(* Verification model of the AgentMeca chunking / ingestion / search core. *)
(*                                                                         *)
(*   SpecChunk   SemanticTextChunker.max_min_chunking                       *)
(*               (src/semantic_text_chunker.py)                            *)
(*   SpecIngest  ChunkIngester.ingest_files + VectorDatabase.add_chunks    *)
(*               (src/ingest_chunks.py, src/vector_database.py)            *)
(*   SpecSearch  VectorDatabase.search (src/vector_database.py)            *)
(*                                                                         *)
(* Each specification drives its own variables and leaves the others at    *)
(* their initial value.                                                    *)
(***************************************************************************)
EXTENDS Integers, Sequences, FiniteSets, TLC

VARIABLES
    \* ---- max_min_chunking ----
    sentences,          \* token count of each input sentence (count_tokens(sentences[i]))
    embeddings,         \* embedding vector of each input sentence
    min_tokens,         \* self.min_tokens
    max_tokens,         \* self.max_tokens
    cpc,                \* position in max_min_chunking
    remaining_indices,  \* set of still-unassigned sentence indices
    current_chunk,      \* list of indices of the open chunk
    chunk_tokens,       \* count_tokens(chunk_text) of the open chunk
    chunks,             \* list of closed chunks
    closedBy,           \* how each closed chunk was closed (observation of the control flow)
    \* ---- ChunkIngester.ingest_files / VectorDatabase.add_chunks ----
    ipc,                \* position in ingest_files / add_chunks
    call,               \* number of ingest_files calls made on this ChunkIngester
    jsonl_files,        \* the list of files of the current call
    batch_size,         \* the batch_size of the current call
    fileIdx,            \* position of the file loop in jsonl_files (1-based)
    stats,              \* ChunkIngester.stats
    all_chunks,         \* all_chunks of the current call
    loaded,             \* records yielded so far in the current call, with process_chunk's result
    statsAtStart,       \* ChunkIngester.stats when the current call began
    result,             \* what the current call returned to its caller
    batch_start,        \* add_chunks: loop variable i
    processed,          \* add_chunks: processed
    errors,             \* add_chunks: errors
    added,              \* add_chunks: doc_chunks_added, code_chunks_added
    batchLog,           \* add_chunks: outcome of each batch attempted in the current call
    collection,         \* the store: entries inserted by _collection.add
    dbstats,            \* VectorDatabase.stats
    \* ---- VectorDatabase.search ----
    spc,                \* position of the caller of search
    config,             \* config['search']
    threshold_arg,      \* the similarity_threshold argument of the call (the empty set: None)
    limit_arg,          \* the limit argument of the call (the empty set: None)
    distances,          \* results['distances'][0] as the store returned them
    similarities,       \* the similarity computed for each candidate
    formatted_results,  \* the list search returned
    \* ---- EnhancedASTExtractor.extract_units ----
    xpc,                \* position in extract_units
    language,           \* the language argument
    root_children,      \* tree.root_node.children
    childIdx,           \* position of the loop in root.children (1-based)
    units,              \* units
    \* ---- VectorDatabase: embedding models and connection ----
    document_model,     \* self._document_model
    code_model,         \* self._code_model
    constructed,        \* SentenceTransformer instances constructed so far, per model
    client_open,        \* self._client is not None
    collection_open,    \* self._collection is not None
    db_calls,           \* the methods called on this VectorDatabase so far, in order
    stored,             \* number of entries of the persistent collection
    last_result,        \* how the last call on this VectorDatabase ended
    \* ---- SemanticCodeChunker.process_ast_file ----
    kpc,                \* position in process_ast_file
    ast_nodes,          \* ast_nodes, as loaded from the AST file
    nodeIdx,            \* position of the loop in ast_nodes (1-based)
    code_chunks,        \* chunks
    \* ---- process_chunk run by two workers ----
    wpc,                \* position of each worker in process_chunk
    wchunk,             \* the record each worker is processing
    shared_hashes,      \* stats["duplicate_hashes"], shared by the workers
    wlog                \* what the workers did, in order (observation)

chunkVars == <<sentences, embeddings, min_tokens, max_tokens, cpc, remaining_indices,
               current_chunk, chunk_tokens, chunks, closedBy>>

ingestVars == <<ipc, call, jsonl_files, batch_size, fileIdx, stats, all_chunks, loaded, statsAtStart,
                result,
                batch_start, processed, errors, added, batchLog, collection, dbstats>>

searchVars == <<spc, config, threshold_arg, limit_arg, distances, similarities,
                formatted_results>>

extractVars == <<xpc, language, root_children, childIdx, units>>

modelVars == <<document_model, code_model, constructed, client_open, collection_open,
               db_calls, stored, last_result>>

codeVars == <<kpc, ast_nodes, nodeIdx, code_chunks>>

workerVars == <<wpc, wchunk, shared_hashes, wlog>>

vars == <<chunkVars, ingestVars, searchVars, extractVars, modelVars, codeVars, workerVars>>

otherThanChunk == <<ingestVars, searchVars, extractVars, modelVars, codeVars, workerVars>>

otherThanIngest == <<chunkVars, searchVars, extractVars, modelVars, codeVars, workerVars>>

otherThanSearch == <<chunkVars, ingestVars, extractVars, modelVars, codeVars, workerVars>>

otherThanExtract == <<chunkVars, ingestVars, searchVars, modelVars, codeVars, workerVars>>

otherThanModels == <<chunkVars, ingestVars, searchVars, extractVars, codeVars, workerVars>>

otherThanCode == <<chunkVars, ingestVars, searchVars, extractVars, modelVars, workerVars>>

otherThanWorkers == <<chunkVars, ingestVars, searchVars, extractVars, modelVars, codeVars>>

(***************************************************************************)
(* Generic helpers                                                         *)
(***************************************************************************)
RECURSIVE SumSeq(_)
SumSeq(s) == IF s = <<>> THEN 0 ELSE Head(s) + SumSeq(Tail(s))

Range(s) == {s[i] : i \in 1..Len(s)}

SetMin(S) == CHOOSE x \in S : \A y \in S : x <= y

SetMax(S) == CHOOSE x \in S : \A y \in S : x >= y

(***************************************************************************)
(* max_min_chunking                                                        *)
(***************************************************************************)
\* Bound on the number of sentences of one document.
MaxSentences == 3

\* Token counts a single sentence may have (as the tokenizer reports them).
TokenValues == {1, 3, 7}

\* Sentence embeddings: unit vectors, so that every cosine similarity in
\* [-1, 1] that matters to the selection (-1, 0, 1) occurs.
EmbeddingValues == {<<1, 0>>, <<0, 1>>, <<-1, 0>>}

\* (min_tokens, max_tokens) settings of the chunker; the constructor does not
\* relate the two.
TokenSettings == {<<4, 5>>, <<6, 5>>}

\* Sentence indices are 0-based as in the code; the sequences of the model are
\* 1-based, sentence i is stored at position i + 1.
NumSentences == Len(sentences)

SentenceIndices == 0..(NumSentences - 1)

\* count_tokens of the sentences with the given indices joined by " ".  The
\* tokenizer is an external collaborator; its count is taken to be additive
\* over the joined sentences.
count_tokens(idxs) == SumSeq([k \in 1..Len(idxs) |-> sentences[idxs[k] + 1]])

\* cosine_similarity of two embeddings (unit vectors: the dot product).
cosine_similarity(a, b) == a[1] * b[1] + a[2] * b[2]

\* np.min of the candidate's similarities to every sentence of the open chunk.
min_similarity(candidate_idx, chunk) ==
    SetMin({cosine_similarity(embeddings[candidate_idx + 1], embeddings[chunk[k] + 1]) :
               k \in 1..Len(chunk)})

\* Mutant of Fits: the token limit is not checked when a candidate is selected.
FitsUnchecked(candidate_idx, chunk) == TRUE

\* test_tokens <= self.max_tokens for the candidate appended to the open chunk.
Fits(candidate_idx, chunk) == count_tokens(Append(chunk, candidate_idx)) <= max_tokens

\* Mutant of Selectable: a candidate is selectable whatever its size.
SelectableOfAnySize(chunk, remaining) ==
    {c \in remaining : min_similarity(c, chunk) > -1}

\* Candidates the scan of the inner loop can select at all: initial
\* best_min_similarity is -1 and the comparison is strict.
Selectable(chunk, remaining) ==
    {c \in remaining : min_similarity(c, chunk) > -1 /\ Fits(c, chunk)}

\* Mutant of BestSentences: any selectable candidate can be taken.
BestSentencesAnySelectable(chunk, remaining) == Selectable(chunk, remaining)

\* The values best_sentence_idx can have after the scan.  The scan keeps the
\* first candidate, in the set's iteration order, that reaches the largest
\* minimum similarity; the iteration order of a set is unspecified, so every
\* candidate reaching that maximum is a possible outcome.
BestSentences(chunk, remaining) ==
    {c \in Selectable(chunk, remaining) :
        \A d \in Selectable(chunk, remaining) :
            min_similarity(d, chunk) <= min_similarity(c, chunk)}

\* The chunker before any call, with no document.
ChunkIdle ==
    /\ sentences = <<>>
    /\ embeddings = <<>>
    /\ min_tokens = 0
    /\ max_tokens = 0
    /\ cpc = "idle"
    /\ remaining_indices = {}
    /\ current_chunk = <<>>
    /\ chunk_tokens = 0
    /\ chunks = <<>>
    /\ closedBy = <<>>

ChunkInit ==
    /\ \E n \in 0..MaxSentences :
          /\ sentences \in [1..n -> TokenValues]
          /\ embeddings \in [1..n -> EmbeddingValues]
    /\ \E s \in TokenSettings : min_tokens = s[1] /\ max_tokens = s[2]
    /\ cpc = "start"
    /\ remaining_indices = {}
    /\ current_chunk = <<>>
    /\ chunk_tokens = 0
    /\ chunks = <<>>
    /\ closedBy = <<>>

ChunkInputs == <<sentences, embeddings, min_tokens, max_tokens>>

\* Entry: the empty-input early return, else chunks = [], remaining = all indices.
ChunkStart ==
    /\ cpc = "start"
    /\ IF NumSentences = 0
          THEN cpc' = "done" /\ remaining_indices' = {}
          ELSE cpc' = "outer" /\ remaining_indices' = SentenceIndices
    /\ UNCHANGED <<ChunkInputs, current_chunk, chunk_tokens, chunks, closedBy>>
    /\ UNCHANGED otherThanChunk

\* Outer loop body head: open a new chunk with the first remaining sentence.
OpenChunk ==
    /\ cpc = "outer"
    /\ remaining_indices # {}
    /\ LET first == SetMin(remaining_indices) IN
          /\ current_chunk' = <<first>>
          /\ remaining_indices' = remaining_indices \ {first}
          /\ chunk_tokens' = count_tokens(<<first>>)
    /\ cpc' = "inner"
    /\ UNCHANGED <<ChunkInputs, chunks, closedBy>>
    /\ UNCHANGED otherThanChunk

\* Inner loop condition.
InnerCond == remaining_indices # {} /\ chunk_tokens < max_tokens

\* Mutant of GreedyAdd: the selected sentence stays in remaining_indices.
GreedyAddNoRemove ==
    /\ cpc = "inner"
    /\ InnerCond
    /\ \E best \in BestSentences(current_chunk, remaining_indices) :
          /\ current_chunk' = Append(current_chunk, best)
          /\ chunk_tokens' = count_tokens(Append(current_chunk, best))
    /\ UNCHANGED <<ChunkInputs, cpc, chunks, closedBy, remaining_indices>>
    /\ UNCHANGED otherThanChunk

\* Inner loop, best_sentence_idx is not None: append the selected sentence.
GreedyAdd ==
    /\ cpc = "inner"
    /\ InnerCond
    /\ \E best \in BestSentences(current_chunk, remaining_indices) :
          /\ current_chunk' = Append(current_chunk, best)
          /\ remaining_indices' = remaining_indices \ {best}
          /\ chunk_tokens' = count_tokens(Append(current_chunk, best))
    /\ UNCHANGED <<ChunkInputs, cpc, chunks, closedBy>>
    /\ UNCHANGED otherThanChunk

\* Inner loop, nothing selected and chunk_tokens >= min_tokens: break, then
\* chunks.append(current_chunk).
BreakAtMin ==
    /\ cpc = "inner"
    /\ InnerCond
    /\ BestSentences(current_chunk, remaining_indices) = {}
    /\ chunk_tokens >= min_tokens
    /\ chunks' = Append(chunks, current_chunk)
    /\ closedBy' = Append(closedBy, "min")
    /\ cpc' = "outer"
    /\ UNCHANGED <<ChunkInputs, remaining_indices, current_chunk, chunk_tokens>>
    /\ UNCHANGED otherThanChunk

\* Mutant of FallbackAdd: the forced sentence is not removed from
\* remaining_indices.
FallbackAddNoRemove ==
    /\ cpc = "inner"
    /\ remaining_indices # {} /\ chunk_tokens < max_tokens
    /\ chunk_tokens < min_tokens
    /\ \A c \in remaining_indices : ~Fits(c, current_chunk)
    /\ \E fallback_idx \in remaining_indices :
          /\ current_chunk' = Append(current_chunk, fallback_idx)
          /\ chunk_tokens' = count_tokens(Append(current_chunk, fallback_idx))
          /\ chunks' = Append(chunks, Append(current_chunk, fallback_idx))
    /\ closedBy' = Append(closedBy, "fallback")
    /\ cpc' = "outer"
    /\ UNCHANGED <<sentences, embeddings, min_tokens, max_tokens, remaining_indices>>
    /\ UNCHANGED otherThanChunk

\* Inner loop, nothing selected and the chunk is under min_tokens: append
\* next(iter(remaining_indices)), break, then chunks.append(current_chunk).
FallbackAdd ==
    /\ cpc = "inner"
    /\ InnerCond
    /\ BestSentences(current_chunk, remaining_indices) = {}
    /\ chunk_tokens < min_tokens
    /\ \E fallback_idx \in remaining_indices :
          /\ current_chunk' = Append(current_chunk, fallback_idx)
          /\ remaining_indices' = remaining_indices \ {fallback_idx}
          /\ chunk_tokens' = count_tokens(Append(current_chunk, fallback_idx))
          /\ chunks' = Append(chunks, Append(current_chunk, fallback_idx))
    /\ closedBy' = Append(closedBy, "fallback")
    /\ cpc' = "outer"
    /\ UNCHANGED ChunkInputs
    /\ UNCHANGED otherThanChunk

\* Inner loop condition false: chunks.append(current_chunk).
LoopExit ==
    /\ cpc = "inner"
    /\ ~InnerCond
    /\ chunks' = Append(chunks, current_chunk)
    /\ closedBy' = Append(closedBy, "exit")
    /\ cpc' = "outer"
    /\ UNCHANGED <<ChunkInputs, remaining_indices, current_chunk, chunk_tokens>>
    /\ UNCHANGED otherThanChunk

\* Outer loop condition false: return chunks.
ChunkReturn ==
    /\ cpc = "outer"
    /\ remaining_indices = {}
    /\ cpc' = "done"
    /\ UNCHANGED <<ChunkInputs, remaining_indices, current_chunk, chunk_tokens, chunks,
                   closedBy>>
    /\ UNCHANGED otherThanChunk

ChunkNext ==
    \/ ChunkStart
    \/ OpenChunk
    \/ GreedyAdd
    \/ BreakAtMin
    \/ FallbackAdd
    \/ LoopExit
    \/ ChunkReturn

(***************************************************************************)
(* ChunkIngester (src/ingest_chunks.py)                                    *)
(***************************************************************************)
\* Bound on the number of inputs one ChunkIngester consumes: records, lines
\* that are not valid JSON, and files that cannot be read.
MaxRecords == 2

\* The batch_size arguments of the calls.
BatchSizes == {1, 2}

\* len(text) limits of validate_chunk.
MinTextLength == 10

MaxTextLength == 50000

\* hashlib.md5(...).hexdigest() and hashlib.sha1(...).hexdigest()[:12], taken
\* to be collision-free: the digest is represented by its algorithm and input.
Md5(content) == <<"md5", content>>

Sha1Prefix(content) == <<"sha1", content>>

\* The hash a chunker stores in the record it writes: the text chunker
\* (create_chunk_metadata) and the code chunker (compute_chunk_hash).
DocumentChunkHash(text) == Md5(text)

CodeChunkHash(text) == Sha1Prefix(text)

\* A text of more than 50000 characters (2^16 of them).
RECURSIVE Doubled(_, _)
Doubled(s, k) == IF k = 0 THEN s ELSE Doubled(s \o s, k - 1)

LongText == Doubled("x", 16)

\* The records a JSONL line can decode to.  A record is a mapping, fields can
\* be absent: records that carry no hash, records written by the text chunker
\* and by the code chunker, and records validate_chunk rejects.
RecordPool ==
    {[chunk_id |-> "a", text |-> "def f(): return 1"],
     [chunk_id |-> "b", text |-> "def f(): return 1"],
     [chunk_id |-> "a", text |-> "import numpy"],
     [chunk_id |-> "a", text |-> "def f(): return 1",
      hash |-> DocumentChunkHash("def f(): return 1")],
     [chunk_id |-> "b", text |-> "def f(): return 1",
      hash |-> DocumentChunkHash("def f(): return 1")],
     [chunk_id |-> "b", text |-> "def f(): return 1",
      hash |-> CodeChunkHash("def f(): return 1")],
     [chunk_id |-> "a", text |-> "pass"],
     [chunk_id |-> "a"],
     [text |-> "import numpy"],
     [chunk_id |-> "a", text |-> ""],
     [chunk_id |-> "a", text |-> " \t \n        "],
     [chunk_id |-> "a", text |-> LongText]}

\* The JSONL files a call can be given, in sorted path order.
FileList == <<"/data/code/sample_ast.jsonl", "/data/docs/manual.jsonl">>

\* The file lists passed to ingest_files: no file, or the files found.
FileLists == {<<>>, FileList}

Whitespace == {" ", "\t", "\n", "\r"}

\* not s.strip()
IsBlank(s) == \A i \in 1..Len(s) : SubSeq(s, i, i) \in Whitespace

\* sub in s
Contains(s, sub) ==
    \E i \in 1..(Len(s) - Len(sub) + 1) : SubSeq(s, i, i + Len(sub) - 1) = sub

UpperCase == <<"A", "B", "C", "D", "E", "F", "G", "H", "I", "J", "K", "L", "M",
               "N", "O", "P", "Q", "R", "S", "T", "U", "V", "W", "X", "Y", "Z">>

LowerCase == <<"a", "b", "c", "d", "e", "f", "g", "h", "i", "j", "k", "l", "m",
               "n", "o", "p", "q", "r", "s", "t", "u", "v", "w", "x", "y", "z">>

\* str.lower()
RECURSIVE Lower(_)
Lower(s) ==
    IF Len(s) = 0 THEN ""
    ELSE LET c == SubSeq(s, 1, 1)
             lc == IF \E k \in 1..26 : UpperCase[k] = c
                      THEN LowerCase[CHOOSE k \in 1..26 : UpperCase[k] = c]
                      ELSE c
         IN lc \o Lower(SubSeq(s, 2, Len(s)))

HasField(chunk, field) == field \in DOMAIN chunk

\* Mutant of validate_chunk: the length of the text is not checked.
validate_chunk_without_length(chunk) ==
    IF ~HasField(chunk, "chunk_id") THEN <<FALSE, "Missing required field: chunk_id">>
    ELSE IF Len(chunk.chunk_id) = 0 \/ IsBlank(chunk.chunk_id)
        THEN <<FALSE, "Empty required field: chunk_id">>
    ELSE IF ~HasField(chunk, "text") THEN <<FALSE, "Missing required field: text">>
    ELSE IF Len(chunk.text) = 0 \/ IsBlank(chunk.text)
        THEN <<FALSE, "Empty required field: text">>
    ELSE <<TRUE, "">>

\* validate_chunk: <<is_valid, error_message>>.
validate_chunk(chunk) ==
    IF ~HasField(chunk, "chunk_id") THEN <<FALSE, "Missing required field: chunk_id">>
    ELSE IF Len(chunk.chunk_id) = 0 \/ IsBlank(chunk.chunk_id)
        THEN <<FALSE, "Empty required field: chunk_id">>
    ELSE IF ~HasField(chunk, "text") THEN <<FALSE, "Missing required field: text">>
    ELSE IF Len(chunk.text) = 0 \/ IsBlank(chunk.text)
        THEN <<FALSE, "Empty required field: text">>
    ELSE IF Len(chunk.text) < MinTextLength THEN <<FALSE, "Text too short">>
    ELSE IF Len(chunk.text) > MaxTextLength THEN <<FALSE, "Text too long">>
    ELSE <<TRUE, "">>

\* Mutant of compute_chunk_hash: an existing hash field is not used.
compute_chunk_hash_ignoring_field(chunk) == Md5(chunk.chunk_id \o chunk.text)

\* compute_chunk_hash
compute_chunk_hash(chunk) ==
    IF HasField(chunk, "hash") THEN chunk.hash
    ELSE Md5(chunk.chunk_id \o chunk.text)

\* determine_content_type
determine_content_type(chunk, file_path) ==
    IF HasField(chunk, "content_type") THEN chunk.content_type
    ELSE IF HasField(chunk, "source_path") \/ HasField(chunk, "repo") \/ HasField(chunk, "lang")
        THEN "code"
    ELSE IF HasField(chunk, "source")
            /\ \E term \in {"doc", "manual", "pdf"} : Contains(Lower(file_path), term)
        THEN "document"
    ELSE IF Contains(file_path, "/docs/") THEN "document"
    ELSE IF Contains(file_path, "/code/") THEN "code"
    ELSE IF \E pattern \in {"_ast", "mecademicpy", "sample"} : Contains(file_path, pattern)
        THEN "code"
    ELSE "document"

\* chunk['content_type'] = content_type
WithContentType(chunk, content_type) ==
    [f \in DOMAIN chunk \cup {"content_type"} |->
        IF f = "content_type" THEN content_type ELSE chunk[f]]

\* Mutant of process_chunk: the hash of an accepted chunk is not added to the
\* set of seen hashes.
process_chunk_without_add(chunk, file_path, st) ==
    IF ~validate_chunk(chunk)[1]
        THEN [include |-> FALSE, reason |-> "Validation failed", stats |-> st, chunk |-> chunk]
    ELSE IF compute_chunk_hash(chunk) \in st.duplicate_hashes
        THEN [include |-> FALSE, reason |-> "Duplicate hash", stats |-> st, chunk |-> chunk]
    ELSE LET content_type == determine_content_type(chunk, file_path) IN
        [include |-> TRUE, reason |-> "",
         stats |-> [st EXCEPT !.content_type_distribution[content_type] = @ + 1],
         chunk |-> WithContentType(chunk, content_type)]

\* process_chunk on the stats st: should_include, skip_reason, and the stats
\* and the chunk as the call leaves them.
process_chunk(chunk, file_path, st) ==
    IF ~validate_chunk(chunk)[1]
        THEN [include |-> FALSE, reason |-> "Validation failed", stats |-> st, chunk |-> chunk]
    ELSE IF compute_chunk_hash(chunk) \in st.duplicate_hashes
        THEN [include |-> FALSE, reason |-> "Duplicate hash", stats |-> st, chunk |-> chunk]
    ELSE LET content_type == determine_content_type(chunk, file_path) IN
        [include |-> TRUE, reason |-> "",
         stats |-> [st EXCEPT !.duplicate_hashes = @ \cup {compute_chunk_hash(chunk)},
                              !.content_type_distribution[content_type] = @ + 1],
         chunk |-> WithContentType(chunk, content_type)]

\* ChunkIngester.__init__: self.stats
InitialStats ==
    [files_processed |-> 0, chunks_loaded |-> 0, chunks_skipped |-> 0, chunks_ingested |-> 0,
     errors |-> <<>>, content_type_distribution |-> [document |-> 0, code |-> 0],
     duplicate_hashes |-> {}]

\* No call has returned.
NoResult == [returned |-> FALSE]

\* The result dictionary of ingest_files for the stats st (the processing
\* time is left out; success_rate is kept as numerator and denominator).
Summary(st) ==
    [files_processed |-> st.files_processed,
     chunks_loaded |-> st.chunks_loaded,
     chunks_skipped |-> st.chunks_skipped,
     chunks_ingested |-> st.chunks_ingested,
     content_type_distribution |-> st.content_type_distribution,
     errors |-> st.errors,
     success_rate |-> IF st.chunks_loaded > 0 THEN <<st.chunks_ingested, st.chunks_loaded>>
                      ELSE <<0, 1>>]

\* The dictionary ingest_from_directory returns when it finds no file.
NoFilesSummary == [files_processed |-> 0, chunks_ingested |-> 0, errors |-> <<"No files found">>]

\* VectorDatabase.__init__: self.stats (the counters add_chunks updates)
InitialDbStats == [total_chunks |-> 0, document_chunks |-> 0, code_chunks |-> 0]

IngestIdle ==
    /\ ipc = "idle"
    /\ call = 0
    /\ jsonl_files = <<>>
    /\ batch_size = 1
    /\ fileIdx = 1
    /\ stats = InitialStats
    /\ all_chunks = <<>>
    /\ loaded = <<>>
    /\ statsAtStart = InitialStats
    /\ result = NoResult
    /\ batch_start = 0
    /\ processed = 0
    /\ errors = <<>>
    /\ added = [document |-> 0, code |-> 0]
    /\ batchLog = <<>>
    /\ collection = <<>>
    /\ dbstats = InitialDbStats

addVars == <<batch_start, processed, errors, added, batchLog, collection, dbstats>>

\* The locals of a call that begins; the locals of the previous call are gone.
BeginCall ==
    /\ ipc \in {"idle", "done", "raised"}
    /\ call < 2
    /\ call' = call + 1
    /\ fileIdx' = 1
    /\ all_chunks' = <<>>
    /\ loaded' = <<>>
    /\ statsAtStart' = stats
    /\ batch_start' = 0
    /\ processed' = 0
    /\ errors' = <<>>
    /\ added' = [document |-> 0, code |-> 0]
    /\ batchLog' = <<>>
    /\ UNCHANGED <<stats, collection, dbstats>>
    /\ UNCHANGED otherThanIngest

\* ingest_from_directory is called (a first time, or once more on the same
\* instance) on a directory where discover_chunk_files finds files, and
\* enters ingest_files.
StartIngest ==
    /\ BeginCall
    /\ jsonl_files' \in FileLists \ {<<>>}
    /\ batch_size' \in BatchSizes
    /\ result' = NoResult
    /\ ipc' = "loading"

\* ingest_from_directory is called on a directory where discover_chunk_files
\* finds no file: it returns without entering ingest_files.
IngestNoFilesFound ==
    /\ BeginCall
    /\ jsonl_files' = <<>>
    /\ UNCHANGED batch_size
    /\ result' = NoFilesSummary
    /\ ipc' = "done"

\* Inputs this ChunkIngester has consumed: the records loaded, the lines that
\* were not valid JSON and the files that could not be read.
InputsConsumed ==
    stats.chunks_loaded
    + Cardinality({k \in 1..Len(stats.errors) : stats.errors[k].kind \in {"json", "read"}})

\* One record is yielded by load_chunks_from_file for the current file and
\* goes through process_chunk.
LoadRecord ==
    /\ ipc = "loading"
    /\ fileIdx <= Len(jsonl_files)
    /\ InputsConsumed < MaxRecords
    /\ \E chunk \in RecordPool :
          LET r == process_chunk(chunk, jsonl_files[fileIdx],
                                 [stats EXCEPT !.chunks_loaded = @ + 1])
          IN /\ loaded' = Append(loaded, [chunk |-> chunk, include |-> r.include,
                                          reason |-> r.reason])
             /\ IF r.include
                   THEN /\ all_chunks' = Append(all_chunks, r.chunk)
                        /\ stats' = r.stats
                   ELSE /\ all_chunks' = all_chunks
                        /\ stats' = [r.stats EXCEPT !.chunks_skipped = @ + 1]
    /\ UNCHANGED <<ipc, call, jsonl_files, batch_size, fileIdx, statsAtStart, result>>
    /\ UNCHANGED addVars
    /\ UNCHANGED otherThanIngest

\* A line of the current file is not valid JSON: load_chunks_from_file
\* records the error and goes on to the next line.
JsonDecodeError ==
    /\ ipc = "loading"
    /\ fileIdx <= Len(jsonl_files)
    /\ InputsConsumed < MaxRecords
    /\ stats' = [stats EXCEPT !.errors = Append(@, [kind |-> "json"])]
    /\ UNCHANGED <<ipc, call, jsonl_files, batch_size, fileIdx, all_chunks, loaded, statsAtStart,
                   result>>
    /\ UNCHANGED addVars
    /\ UNCHANGED otherThanIngest

\* The current file is exhausted.
EndFile ==
    /\ ipc = "loading"
    /\ fileIdx <= Len(jsonl_files)
    /\ stats' = [stats EXCEPT !.files_processed = @ + 1]
    /\ fileIdx' = fileIdx + 1
    /\ UNCHANGED <<ipc, call, jsonl_files, batch_size, all_chunks, loaded, statsAtStart, result>>
    /\ UNCHANGED addVars
    /\ UNCHANGED otherThanIngest

\* The current file cannot be opened or read further: load_chunks_from_file
\* records the error and ends, and the file loop goes on as for a file that
\* is exhausted.
ReadError ==
    /\ ipc = "loading"
    /\ fileIdx <= Len(jsonl_files)
    /\ InputsConsumed < MaxRecords
    /\ stats' = [stats EXCEPT !.errors = Append(@, [kind |-> "read"]),
                              !.files_processed = @ + 1]
    /\ fileIdx' = fileIdx + 1
    /\ UNCHANGED <<ipc, call, jsonl_files, batch_size, all_chunks, loaded, statsAtStart, result>>
    /\ UNCHANGED addVars
    /\ UNCHANGED otherThanIngest

\* The file loop is over and all_chunks is empty: the call returns its result.
ReturnNothingToIngest ==
    /\ ipc = "loading"
    /\ fileIdx > Len(jsonl_files)
    /\ all_chunks = <<>>
    /\ result' = Summary(stats)
    /\ ipc' = "done"
    /\ UNCHANGED <<call, jsonl_files, batch_size, fileIdx, stats, all_chunks, loaded, statsAtStart>>
    /\ UNCHANGED addVars
    /\ UNCHANGED otherThanIngest

(***************************************************************************)
(* VectorDatabase.add_chunks (src/vector_database.py)                      *)
(***************************************************************************)
\* The file loop is over and all_chunks is not empty: add_chunks is entered.
EnterAddChunks ==
    /\ ipc = "loading"
    /\ fileIdx > Len(jsonl_files)
    /\ all_chunks # <<>>
    /\ ipc' = "adding"
    /\ UNCHANGED <<call, jsonl_files, batch_size, fileIdx, stats, all_chunks, loaded, statsAtStart,
                   result>>
    /\ UNCHANGED addVars
    /\ UNCHANGED otherThanIngest

\* chunks[i:i + batch_size]
Batch(i) == SubSeq(all_chunks, i + 1, IF i + batch_size <= Len(all_chunks)
                                         THEN i + batch_size ELSE Len(all_chunks))

\* What can happen to a batch: it is embedded and inserted ("ok"), the
\* embedding of its chunk at position `at` raises ("embed"), or the insert
\* raises ("store").
BatchOutcomes(batch) ==
    {[kind |-> "ok", at |-> 0], [kind |-> "store", at |-> 0]}
    \cup {[kind |-> "embed", at |-> j] : j \in 1..Len(batch)}

\* Number of chunks of the batch whose counter was updated before the outcome:
\* all of them unless the embedding of chunk `at` raised.
CountedBefore(batch, outcome) ==
    IF outcome.kind = "embed" THEN outcome.at - 1 ELSE Len(batch)

CountOfType(batch, n, content_type) ==
    Cardinality({j \in 1..n :
        (batch[j].content_type = "document") = (content_type = "document")})

\* Mutant of CaughtByBatchHandler: a store failure is not caught per batch.
CaughtUnlessStoreFailure(kind) == kind # "store"

\* except Exception around a batch: which failures it absorbs.
CaughtByBatchHandler(kind) == TRUE

\* Mutant of NextBatchStart: the loop stops at the first failed batch.
NextBatchStartStopOnFailure(i, outcome) ==
    IF outcome.kind = "ok" THEN i + batch_size ELSE Len(all_chunks)

\* for i in range(0, len(chunks), batch_size): the loop goes on to the next
\* batch whatever the batch's outcome.
NextBatchStart(i, outcome) == i + batch_size

\* One iteration of the batch loop.
ProcessBatch ==
    /\ ipc = "adding"
    /\ batch_start < Len(all_chunks)
    /\ LET batch == Batch(batch_start) IN
       \E outcome \in BatchOutcomes(batch) :
          /\ added' = [document |-> added.document
                                      + CountOfType(batch, CountedBefore(batch, outcome), "document"),
                       code |-> added.code
                                      + CountOfType(batch, CountedBefore(batch, outcome), "code")]
          /\ batchLog' = Append(batchLog, [start |-> batch_start, size |-> Len(batch),
                                           outcome |-> outcome.kind])
          /\ IF outcome.kind = "ok"
                THEN /\ collection' = collection \o batch
                     /\ processed' = processed + Len(batch)
                     /\ errors' = errors
                     /\ ipc' = "adding"
                     /\ batch_start' = NextBatchStart(batch_start, outcome)
                ELSE IF CaughtByBatchHandler(outcome.kind)
                THEN /\ errors' = Append(errors, [batch |-> (batch_start \div batch_size) + 1,
                                                  kind |-> outcome.kind])
                     /\ ipc' = "adding"
                     /\ batch_start' = NextBatchStart(batch_start, outcome)
                     /\ UNCHANGED <<collection, processed>>
                ELSE /\ ipc' = "raised"
                     /\ UNCHANGED <<collection, processed, errors, batch_start>>
    /\ UNCHANGED <<call, jsonl_files, batch_size, fileIdx, stats, all_chunks, loaded, statsAtStart,
                   result, dbstats>>
    /\ UNCHANGED otherThanIngest

\* After the last batch: _collection.count() succeeds, add_chunks returns its
\* result and ingest_files records it and returns.
FinishAddChunks ==
    /\ ipc = "adding"
    /\ batch_start >= Len(all_chunks)
    /\ dbstats' = [total_chunks |-> Len(collection),
                   document_chunks |-> dbstats.document_chunks + added.document,
                   code_chunks |-> dbstats.code_chunks + added.code]
    /\ stats' = [stats EXCEPT !.chunks_ingested = processed,
                              !.errors = @ \o errors]
    /\ result' = Summary(stats')
    /\ ipc' = "done"
    /\ UNCHANGED <<call, jsonl_files, batch_size, fileIdx, all_chunks, loaded, statsAtStart, batch_start,
                   processed, errors, added, batchLog, collection>>
    /\ UNCHANGED otherThanIngest

\* After the last batch: _collection.count() raises (the store cannot be
\* reached); nothing catches it in add_chunks or in ingest_files.
CountRaises ==
    /\ ipc = "adding"
    /\ batch_start >= Len(all_chunks)
    /\ ipc' = "raised"
    /\ UNCHANGED <<call, jsonl_files, batch_size, fileIdx, stats, all_chunks, loaded, statsAtStart,
                   result>>
    /\ UNCHANGED addVars
    /\ UNCHANGED otherThanIngest

IngestNext ==
    \/ StartIngest
    \/ IngestNoFilesFound
    \/ LoadRecord
    \/ JsonDecodeError
    \/ EndFile
    \/ ReadError
    \/ ReturnNothingToIngest
    \/ EnterAddChunks
    \/ ProcessBatch
    \/ FinishAddChunks
    \/ CountRaises

(***************************************************************************)
(* VectorDatabase.search (src/vector_database.py)                          *)
(*                                                                         *)
(* Distances, similarities and thresholds are Python floats.  They are     *)
(* modelled by a binary floating-point format of the same structure as     *)
(* IEEE 754 binary64 (normal and subnormal numbers, round to nearest, ties *)
(* to even) with a scaled-down precision and exponent range.  A finite     *)
(* value is held as an integer: its multiple of the smallest subnormal.    *)
(***************************************************************************)
\* Number of bits of the significand (53 for binary64).
Precision == 2

\* Largest and smallest exponent of a normal number (1023 and -1022 for
\* binary64; the range keeps 1 below half the spacing of the largest numbers).
ExpMax == Precision + 1

ExpMin == 1 - ExpMax

RECURSIVE Pow2(_)
Pow2(n) == IF n = 0 THEN 1 ELSE 2 * Pow2(n - 1)

\* 1.0 and 0.5
One == Pow2(Precision - 1 - ExpMin)

Half == One \div 2

\* The largest finite value.
MaxFloat == (Pow2(Precision) - 1) * Pow2(ExpMax - ExpMin)

\* The result of an operation that overflows (float('inf')).
Infinity == MaxFloat + 1

\* The non-negative finite values of the format.
Floats == {m * Pow2(j) : m \in 0..(Pow2(Precision) - 1), j \in 0..(ExpMax - ExpMin)}

\* The significand of a value of the format, as an integer.
RECURSIVE Significand(_)
Significand(k) == IF k < Pow2(Precision) THEN k ELSE Significand(k \div 2)

\* The exact value n / d (d > 0) rounded to the format.
RoundToFloat(n, d) ==
    LET lo == SetMax({k \in Floats : k * d <= n})
        above == {k \in Floats : k * d >= n}
    IN IF above = {}
          THEN IF 2 * (n - MaxFloat * d) < Pow2(ExpMax - ExpMin) * d
                  THEN MaxFloat ELSE Infinity
          ELSE LET hi == SetMin(above) IN
               IF lo = hi THEN lo
               ELSE IF 2 * n < (lo + hi) * d THEN lo
               ELSE IF 2 * n > (lo + hi) * d THEN hi
               ELSE IF Significand(lo) % 2 = 0 THEN lo ELSE hi

\* a + b and a / b on floats (b > 0).
FloatAdd(a, b) == IF a = Infinity \/ b = Infinity THEN Infinity ELSE RoundToFloat(a + b, 1)

FloatDiv(a, b) == IF b = Infinity THEN 0 ELSE RoundToFloat(a * One, b)

\* Mutant of similarity: the superseded score 1 - distance.
similarity_one_minus_distance(distance) == One - distance

\* Mutant of similarity: the reciprocal is left out.
similarity_without_reciprocal(distance) == FloatAdd(One, distance)

\* similarity = 1 / (1 + distance)
similarity(distance) == FloatDiv(One, FloatAdd(One, distance))

\* The limits a caller passes; 0 is falsy and replaced by the default.
LimitValues == 0..2

\* The similarity_threshold and limit arguments of search: None (the empty
\* set) or a value; thresholds are the floats of [0, 1].
ThresholdArgs == {{}} \cup {{t} : t \in {f \in Floats : f <= One}}

LimitArgs == {{}} \cup {{n} : n \in LimitValues}

\* config['search']: the configuration file is not part of the sources; the
\* default threshold is positive and the default limit is the largest limit.
DefaultLimit == SetMax(LimitValues)

SearchConfigs ==
    {[similarity_threshold |-> t, default_limit |-> DefaultLimit] : t \in {Half \div 2, Half}}

\* x or default, for an optional number x.
OrDefault(arg, default) ==
    IF arg = {} \/ arg = {0} THEN default ELSE CHOOSE x \in arg : TRUE

\* What _collection.query can return for n_results = n: at most n distances,
\* in ascending order.
IsAscending(s) == \A i \in 1..(Len(s) - 1) : s[i] <= s[i + 1]

CandidateLists ==
    UNION {{s \in [1..n -> Floats] : IsAscending(s)} : n \in 0..DefaultLimit}

\* Mutant of FormatResults: the threshold test is left out.
FormatResultsUnfiltered(ds, threshold) ==
    [i \in 1..Len(ds) |-> [distance |-> ds[i], similarity_score |-> similarity(ds[i]),
                           rank |-> i]]

\* Mutant of FormatResults: the candidates under the threshold are the ones
\* kept.
FormatResultsBelowThreshold(ds, threshold) ==
    SelectSeq([i \in 1..Len(ds) |-> [distance |-> ds[i],
                                     similarity_score |-> similarity(ds[i]),
                                     rank |-> i]],
              LAMBDA r : r.similarity_score < threshold)

\* The loop over the candidates: the formatted results.
FormatResults(ds, threshold) ==
    SelectSeq([i \in 1..Len(ds) |-> [distance |-> ds[i],
                                     similarity_score |-> similarity(ds[i]),
                                     rank |-> i]],
              LAMBDA r : r.similarity_score >= threshold)

\* The threshold the loop compares with: the argument, or the configured
\* default when the argument is None or 0.
EffectiveThreshold == OrDefault(threshold_arg, config.similarity_threshold)

SearchIdle ==
    /\ spc = "idle"
    /\ config = [similarity_threshold |-> Half, default_limit |-> DefaultLimit]
    /\ threshold_arg = {}
    /\ limit_arg = {}
    /\ distances = <<>>
    /\ similarities = <<>>
    /\ formatted_results = <<>>

SearchInit ==
    /\ spc = "idle"
    /\ config \in SearchConfigs
    /\ threshold_arg = {}
    /\ limit_arg = {}
    /\ distances = <<>>
    /\ similarities = <<>>
    /\ formatted_results = <<>>

\* One call of search on an initialised database.
Search ==
    /\ spc = "idle"
    /\ \E t \in ThresholdArgs, l \in LimitArgs :
          LET limit == OrDefault(l, config.default_limit)
              similarity_threshold == OrDefault(t, config.similarity_threshold)
          IN \E ds \in {s \in CandidateLists : Len(s) <= limit} :
                /\ threshold_arg' = t
                /\ limit_arg' = l
                /\ distances' = ds
                /\ similarities' = [i \in 1..Len(ds) |-> similarity(ds[i])]
                /\ formatted_results' = FormatResults(ds, similarity_threshold)
    /\ spc' = "returned"
    /\ UNCHANGED config
    /\ UNCHANGED otherThanSearch

\* The caller has the results; the database is ready for the next query.
NextQuery ==
    /\ spc = "returned"
    /\ spc' = "idle"
    /\ threshold_arg' = {}
    /\ limit_arg' = {}
    /\ distances' = <<>>
    /\ similarities' = <<>>
    /\ formatted_results' = <<>>
    /\ UNCHANGED config
    /\ UNCHANGED otherThanSearch

SearchNext ==
    \/ Search
    \/ NextQuery

(***************************************************************************)
(* EnhancedASTExtractor.extract_units (src/enhanced_ast_extractor.py)      *)
(*                                                                         *)
(* A syntax-tree node is a record: its type, its name ("" when it has no   *)
(* name child), its snippet as the list of the byte sizes of its lines     *)
(* (snippet.split('\n')), and its children.  The text is taken to be       *)
(* ASCII and a node's span to begin and end at a token, so that            *)
(* len(snippet.strip()) is the snippet's size in bytes.  The text of a     *)
(* class header chunk (extract_class_header), signatures, docstrings and   *)
(* byte offsets are not part of the state.                                 *)
(***************************************************************************)
TARGET_CHUNK_SIZE == 2048

MAX_CHUNK_SIZE == 4096

\* Methods whose stripped snippet is shorter are dropped.
MIN_METHOD_LENGTH == 10

Languages == {"python", "javascript"}

TOP_LEVEL_NODES ==
    [python |-> {"function_definition", "class_definition", "import_statement",
                 "import_from_statement", "assignment"},
     javascript |-> {"function_declaration", "class_declaration", "export_statement",
                     "import_statement", "variable_declaration", "expression_statement"}]

METHOD_NODES ==
    [python |-> {"function_definition"},
     javascript |-> {"function_declaration", "method_definition"}]

ClassTypes == {"class_definition", "class_declaration"}

\* len(snippet.encode('utf-8')) of a snippet given by its lines: the lines
\* and the newlines between them.
SnippetBytes(lines) == SumSeq(lines) + Len(lines) - 1

\* Bound on the number of lines of a function and on the number of members
\* of a class.
MaxLines == 3

\* Byte sizes of a line.
LineSizes == {0, 2040, 2048, 4097}

Node(type, name, lines, children) ==
    [type |-> type, name |-> name, lines |-> lines, children |-> children]

\* The node types of a language's class, method and top-level function.
ClassType(lang) == IF lang = "python" THEN "class_definition" ELSE "class_declaration"

MethodType(lang) == IF lang = "python" THEN "function_definition" ELSE "method_definition"

FunctionType(lang) == IF lang = "python" THEN "function_definition" ELSE "function_declaration"

\* Top-level functions: every body of at most MaxLines lines.
FunctionNodes(lang) ==
    {Node(FunctionType(lang), "f", lines, <<>>) :
        lines \in UNION {[1..n -> LineSizes] : n \in 1..MaxLines}}

\* What a class body can contain: methods, a method too short to be kept, a
\* method that contains a nested function, a method under a decorator or
\* another wrapping node, a nested class with a method of its own, and a
\* statement that is no method.
Members(lang) ==
    {Node(MethodType(lang), "m1", <<20, 30>>, <<>>),
     Node(MethodType(lang), "m2", <<2048, 2048, 2048>>, <<>>),
     Node(MethodType(lang), "tiny", <<9>>, <<>>),
     Node(MethodType(lang), "outer", <<20, 30, 30>>,
          <<Node(FunctionType(lang), "helper", <<30>>, <<>>)>>),
     Node("decorated_definition", "", <<10, 20, 30>>,
          <<Node(MethodType(lang), "wrapped", <<20, 30>>, <<>>)>>),
     Node(ClassType(lang), "Inner", <<12, 20>>,
          <<Node(MethodType(lang), "m3", <<20>>, <<>>)>>),
     Node("expression_statement", "", <<12>>, <<>>)}

\* Top-level classes: every body of at most MaxLines members.
ClassNodes(lang) ==
    {Node(ClassType(lang), "K", <<8, 40>>, members) :
        members \in UNION {[1..n -> Members(lang)] : n \in 0..MaxLines}}

\* Other children of the root: an import, and a node whose type is not a
\* top-level type of the language.
OtherNodes(lang) ==
    {Node("import_statement", "", <<12>>, <<>>),
     Node("decorated_definition", "", <<10, 30>>,
          <<Node(FunctionType(lang), "g", <<30>>, <<>>)>>)}

\* root.children of the files extract_units is given: one function, one
\* class, or an import or unhandled node followed by a function or a class.
Roots(lang) ==
    {<<n>> : n \in FunctionNodes(lang) \cup ClassNodes(lang) \cup OtherNodes(lang)}
    \cup {<<o, n>> : o \in OtherNodes(lang),
                     n \in {Node(FunctionType(lang), "f", <<4097>>, <<>>),
                            Node(FunctionType(lang), "f", <<20>>, <<>>),
                            Node(ClassType(lang), "K", <<8, 40>>,
                                 <<Node(MethodType(lang), "m1", <<20, 30>>, <<>>)>>)}}

\* should_split_large_chunk
should_split_large_chunk(lines) == SnippetBytes(lines) > MAX_CHUNK_SIZE

\* The loop of split_large_function over the lines still to read.
RECURSIVE SplitLines(_, _, _, _)
SplitLines(lines, done, cur_chunk, cur_size) ==
    IF lines = <<>>
        THEN IF cur_chunk # <<>> THEN Append(done, cur_chunk) ELSE done
    ELSE LET line_size == Head(lines) IN
         IF cur_size + line_size > TARGET_CHUNK_SIZE /\ cur_chunk # <<>>
             THEN SplitLines(Tail(lines), Append(done, cur_chunk), <<line_size>>, line_size)
             ELSE SplitLines(Tail(lines), done, Append(cur_chunk, line_size),
                             cur_size + line_size)

\* Mutant of split_large_function: the line that closes a part is dropped
\* with it.
split_large_function_losing_lines(lines) ==
    LET parts == SplitLines(lines, <<>>, <<>>, 0) IN
    [i \in 1..Len(parts) |->
        IF i < Len(parts) /\ Len(parts[i]) > 1
            THEN SubSeq(parts[i], 1, Len(parts[i]) - 1) ELSE parts[i]]

\* split_large_function: the sub-chunks, each the list of its lines.
split_large_function(lines) == SplitLines(lines, <<>>, <<>>, 0)

\* extract_node_name (python, javascript)
extract_node_name(node) == IF node.name # "" THEN node.name ELSE "unknown"

\* determine_chunk_type
determine_chunk_type(node_type) ==
    CASE node_type \in {"function_definition", "function_declaration"} -> "function"
      [] node_type \in {"class_definition", "class_declaration"} -> "class"
      [] node_type \in {"import_statement", "import_from_statement"} -> "import"
      [] node_type = "method_declaration" -> "method"
      [] node_type = "assignment" -> "constant"
      [] node_type = "variable_declaration" -> "variable"
      [] OTHER -> "other"

\* find_methods_recursive: the method nodes of a subtree, in source order;
\* the search does not go below a method node.
RECURSIVE find_methods_recursive(_, _)
RECURSIVE FindInChildren(_, _)
FindInChildren(children, method_types) ==
    IF children = <<>> THEN <<>>
    ELSE find_methods_recursive(Head(children), method_types)
         \o FindInChildren(Tail(children), method_types)

find_methods_recursive(node, method_types) ==
    IF node.type \in method_types THEN <<node>>
    ELSE FindInChildren(node.children, method_types)

MethodUnit(method_node, class_name) ==
    [snippet |-> method_node.lines,
     node_type |-> method_node.type,
     chunk_type |-> "method",
     name |-> extract_node_name(method_node),
     parent_class |-> class_name,
     qualified_name |-> class_name \o "." \o extract_node_name(method_node),
     chunk_size_bytes |-> SnippetBytes(method_node.lines)]

\* The method nodes that are not skipped as too small.
KeptMethods(method_nodes) ==
    SelectSeq(method_nodes, LAMBDA n : ~(SnippetBytes(n.lines) < MIN_METHOD_LENGTH))

\* Mutant of extract_class_methods: only the children of the class node are
\* looked at.
extract_class_methods_direct(class_node, lang, class_name) ==
    LET kept == KeptMethods(SelectSeq(class_node.children,
                                      LAMBDA n : n.type \in METHOD_NODES[lang]))
    IN [i \in 1..Len(kept) |-> MethodUnit(kept[i], class_name)]

\* extract_class_methods
extract_class_methods(class_node, lang, class_name) ==
    LET kept == KeptMethods(find_methods_recursive(class_node, METHOD_NODES[lang]))
    IN [i \in 1..Len(kept) |-> MethodUnit(kept[i], class_name)]

ClassUnit(child) ==
    [node_type |-> child.type,
     chunk_type |-> "class",
     name |-> extract_node_name(child),
     qualified_name |-> extract_node_name(child)]

\* A part of a split function; ToString(i) is the decimal numeral of i.
PartUnit(child, sub_chunk, i) ==
    [snippet |-> sub_chunk,
     node_type |-> child.type,
     chunk_type |-> "function_part",
     name |-> extract_node_name(child) \o "_part_" \o ToString(i),
     qualified_name |-> extract_node_name(child) \o "_part_" \o ToString(i),
     parent_function |-> extract_node_name(child),
     chunk_size_bytes |-> SnippetBytes(sub_chunk)]

RegularUnit(child) ==
    [snippet |-> child.lines,
     node_type |-> child.type,
     chunk_type |-> determine_chunk_type(child.type),
     name |-> extract_node_name(child),
     qualified_name |-> extract_node_name(child),
     chunk_size_bytes |-> SnippetBytes(child.lines)]

ExtractIdle ==
    /\ xpc = "idle"
    /\ language = "python"
    /\ root_children = <<>>
    /\ childIdx = 1
    /\ units = <<>>

\* extract_units is called on the tree of a file of one of the languages.
ExtractInit ==
    /\ xpc = "extracting"
    /\ language \in Languages
    /\ root_children \in Roots(language)
    /\ childIdx = 1
    /\ units = <<>>

InLoop == xpc = "extracting" /\ childIdx <= Len(root_children)

\* The child is not of a top-level type: nothing is emitted for it.
SkipChild ==
    /\ InLoop
    /\ root_children[childIdx].type \notin TOP_LEVEL_NODES[language]
    /\ childIdx' = childIdx + 1
    /\ UNCHANGED <<xpc, language, root_children, units>>
    /\ UNCHANGED otherThanExtract

\* The child is a class: its header chunk, then its method chunks.
ExtractClass ==
    /\ InLoop
    /\ LET child == root_children[childIdx] IN
       /\ child.type \in TOP_LEVEL_NODES[language]
       /\ child.type \in ClassTypes
       /\ units' = Append(units, ClassUnit(child))
                   \o extract_class_methods(child, language, extract_node_name(child))
    /\ childIdx' = childIdx + 1
    /\ UNCHANGED <<xpc, language, root_children>>
    /\ UNCHANGED otherThanExtract

\* The child is a function too large for one chunk: its parts.
ExtractFunctionParts ==
    /\ InLoop
    /\ LET child == root_children[childIdx] IN
       /\ child.type \in TOP_LEVEL_NODES[language]
       /\ child.type \notin ClassTypes
       /\ should_split_large_chunk(child.lines) /\ child.type \in METHOD_NODES[language]
       /\ LET sub_chunks == split_large_function(child.lines) IN
          units' = units \o [i \in 1..Len(sub_chunks) |-> PartUnit(child, sub_chunks[i], i)]
    /\ childIdx' = childIdx + 1
    /\ UNCHANGED <<xpc, language, root_children>>
    /\ UNCHANGED otherThanExtract

\* Any other top-level child: one chunk.
ExtractRegular ==
    /\ InLoop
    /\ LET child == root_children[childIdx] IN
       /\ child.type \in TOP_LEVEL_NODES[language]
       /\ child.type \notin ClassTypes
       /\ ~(should_split_large_chunk(child.lines) /\ child.type \in METHOD_NODES[language])
       /\ units' = Append(units, RegularUnit(child))
    /\ childIdx' = childIdx + 1
    /\ UNCHANGED <<xpc, language, root_children>>
    /\ UNCHANGED otherThanExtract

\* The loop is over: extract_units returns the units.
ReturnUnits ==
    /\ xpc = "extracting"
    /\ childIdx > Len(root_children)
    /\ xpc' = "returned"
    /\ UNCHANGED <<language, root_children, childIdx, units>>
    /\ UNCHANGED otherThanExtract

ExtractNext ==
    \/ SkipChild
    \/ ExtractClass
    \/ ExtractFunctionParts
    \/ ExtractRegular
    \/ ReturnUnits

(***************************************************************************)
(* VectorDatabase: lazily loaded embedding models (src/vector_database.py) *)
(*                                                                         *)
(* A loaded model is identified by the number of its instantiation: the    *)
(* n-th SentenceTransformer constructed for a content type is instance n.  *)
(* None is 0.                                                              *)
(***************************************************************************)
\* Bound on the number of calls made on one VectorDatabase.
MaxDbCalls == 5

\* The content_type values callers pass (None is "none").
ContentTypes == {"document", "code", "other", "none"}

\* The model a content type is embedded with: generate_embedding and search
\* use the code model for 'code' and the document model otherwise.
ModelFor(content_type) == IF content_type = "code" THEN "code" ELSE "document"

\* Whether a SentenceTransformer(...) construction succeeds or raises.
LoadOutcomes == {"loaded", "raises"}

\* The document_model / code_model property: the cached instance if there is
\* one, otherwise the instance constructed now (it stays None if the
\* construction raises).
LoadedModel(current, made, outcome) ==
    IF current # 0 THEN current
    ELSE IF outcome = "loaded" THEN made + 1 ELSE 0

\* The state of the two cached models after `which` is asked for.
UseModel(ms, which, outcome) ==
    LET after == LoadedModel(ms.model[which], ms.constructed[which], outcome) IN
    [model |-> [ms.model EXCEPT ![which] = after],
     constructed |-> [ms.constructed EXCEPT ![which] =
                         IF after # ms.model[which] THEN @ + 1 ELSE @],
     raised |-> after = 0]

\* The embeddings of the chunks of add_chunks, one after the other; a chunk
\* whose model cannot be constructed ends its batch, the next batch goes on
\* (batches of one chunk).
RECURSIVE EmbedAll(_, _, _)
EmbedAll(ms, types, outcomes) ==
    IF types = <<>> THEN ms
    ELSE EmbedAll(UseModel(ms, ModelFor(Head(types)), Head(outcomes)),
                  Tail(types), Tail(outcomes))

\* The number of chunks of add_chunks whose embedding is computed, and whose
\* batch is therefore inserted.
RECURSIVE EmbeddedCount(_, _, _)
EmbeddedCount(ms, types, outcomes) ==
    IF types = <<>> THEN 0
    ELSE LET after == UseModel(ms, ModelFor(Head(types)), Head(outcomes)) IN
         (IF after.raised THEN 0 ELSE 1) + EmbeddedCount(after, Tail(types), Tail(outcomes))

Models == [model |-> [document |-> document_model, code |-> code_model],
           constructed |-> constructed, raised |-> FALSE]

ModelsIdle ==
    /\ document_model = 0
    /\ code_model = 0
    /\ constructed = [document |-> 0, code |-> 0]
    /\ client_open = FALSE
    /\ collection_open = FALSE
    /\ db_calls = <<>>
    /\ stored = 0
    /\ last_result = "none"

\* VectorDatabase.__init__
ModelsInit == ModelsIdle

SetModels(ms) ==
    /\ document_model' = ms.model.document
    /\ code_model' = ms.model.code
    /\ constructed' = ms.constructed

CountCall(name) ==
    /\ Len(db_calls) < MaxDbCalls
    /\ db_calls' = Append(db_calls, name)
    /\ UNCHANGED otherThanModels

\* initialize_database: the client is opened and the collection of the
\* configured name is loaded, or created when there is none.
InitializeDatabase ==
    /\ CountCall("initialize_database")
    /\ client_open' = TRUE
    /\ collection_open' = TRUE
    /\ last_result' = "returned"
    /\ UNCHANGED <<document_model, code_model, constructed, stored>>

\* generate_embedding(text, content_type)
GenerateEmbedding ==
    /\ CountCall("generate_embedding")
    /\ \E content_type \in ContentTypes \ {"none"}, outcome \in LoadOutcomes :
          /\ SetModels(UseModel(Models, ModelFor(content_type), outcome))
          /\ last_result' = IF UseModel(Models, ModelFor(content_type), outcome).raised
                               THEN "error" ELSE "returned"
    /\ UNCHANGED <<client_open, collection_open, stored>>

\* Mutant of AddChunks: the chunks are embedded and inserted whether or not
\* the database is initialised.
AddChunksUnguarded ==
    /\ CountCall("add_chunks")
    /\ \E n \in 0..2 :
       \E types \in [1..n -> {"document", "code"}], outcomes \in [1..n -> LoadOutcomes] :
          /\ SetModels(EmbedAll(Models, types, outcomes))
          /\ stored' = stored + EmbeddedCount(Models, types, outcomes)
          /\ last_result' = "returned"
    /\ UNCHANGED <<client_open, collection_open>>

\* add_chunks(chunks): raises RuntimeError at once when the database is not
\* initialised; otherwise the chunks whose embedding succeeded are inserted
\* and the call returns its result.
AddChunks ==
    /\ CountCall("add_chunks")
    /\ IF ~collection_open
          THEN /\ last_result' = "RuntimeError"
               /\ UNCHANGED <<document_model, code_model, constructed, stored>>
          ELSE \E n \in 0..2 :
               \E types \in [1..n -> {"document", "code"}], outcomes \in [1..n -> LoadOutcomes] :
                  /\ SetModels(EmbedAll(Models, types, outcomes))
                  /\ stored' = stored + EmbeddedCount(Models, types, outcomes)
                  /\ last_result' = "returned"
    /\ UNCHANGED <<client_open, collection_open>>

\* search(query, content_type): raises at once when the database is not
\* initialised.
SearchCall ==
    /\ CountCall("search")
    /\ IF ~collection_open
          THEN /\ last_result' = "RuntimeError"
               /\ UNCHANGED <<document_model, code_model, constructed>>
          ELSE \E content_type \in {"none", "document", "code"}, outcome \in LoadOutcomes :
                  /\ SetModels(UseModel(Models, ModelFor(content_type), outcome))
                  /\ last_result' = IF UseModel(Models, ModelFor(content_type), outcome).raised
                                       THEN "error" ELSE "returned"
    /\ UNCHANGED <<client_open, collection_open, stored>>

\* get_stats
GetStats ==
    /\ CountCall("get_stats")
    /\ last_result' = "returned"
    /\ UNCHANGED <<document_model, code_model, constructed, client_open, collection_open,
                   stored>>

\* Mutant of ResetDatabase: the cached models are dropped with the data.
ResetDatabaseDroppingModels ==
    /\ CountCall("reset_database")
    /\ IF client_open /\ collection_open
          THEN /\ collection_open' = FALSE
               /\ stored' = 0
               /\ document_model' = 0
               /\ code_model' = 0
          ELSE UNCHANGED <<collection_open, stored, document_model, code_model>>
    /\ last_result' = "returned"
    /\ UNCHANGED <<constructed, client_open>>

\* reset_database: with a client and a collection, the collection is deleted
\* from the store and forgotten; otherwise nothing is done.
ResetDatabase ==
    /\ CountCall("reset_database")
    /\ IF client_open /\ collection_open
          THEN collection_open' = FALSE /\ stored' = 0
          ELSE UNCHANGED <<collection_open, stored>>
    /\ last_result' = "returned"
    /\ UNCHANGED <<document_model, code_model, constructed, client_open>>

\* close
Close ==
    /\ CountCall("close")
    /\ client_open' = FALSE
    /\ collection_open' = FALSE
    /\ last_result' = "returned"
    /\ UNCHANGED <<document_model, code_model, constructed, stored>>

ModelsNext ==
    \/ InitializeDatabase
    \/ GenerateEmbedding
    \/ AddChunks
    \/ SearchCall
    \/ GetStats
    \/ ResetDatabase
    \/ Close

(***************************************************************************)
(* SemanticCodeChunker (src/semantic_code_chunker.py)                      *)
(*                                                                         *)
(* An AST node is a record whose fields can be absent.  A value that can   *)
(* be None is held as a set: {} is None, {v} is the value v.  The chunk_id,*)
(* the source path, the commit, the line and byte locations, signature and *)
(* docstring of a chunk are not part of the state.                         *)
(***************************************************************************)
\* Python string operations.
Char(s, i) == SubSeq(s, i, i)

StartsWith(s, prefix) == Len(s) >= Len(prefix) /\ SubSeq(s, 1, Len(prefix)) = prefix

EndsWith(s, suffix) ==
    Len(s) >= Len(suffix) /\ SubSeq(s, Len(s) - Len(suffix) + 1, Len(s)) = suffix

\* s.strip(chars) for a set of one-character strings; s.strip() for Whitespace.
RECURSIVE LStripChars(_, _)
LStripChars(s, chars) ==
    IF Len(s) > 0 /\ Char(s, 1) \in chars THEN LStripChars(SubSeq(s, 2, Len(s)), chars) ELSE s

RECURSIVE RStripChars(_, _)
RStripChars(s, chars) ==
    IF Len(s) > 0 /\ Char(s, Len(s)) \in chars
        THEN RStripChars(SubSeq(s, 1, Len(s) - 1), chars) ELSE s

Strip(s) == RStripChars(LStripChars(s, Whitespace), Whitespace)

\* Position of the first occurrence of sep in s at or after position i, or 0.
RECURSIVE FindFrom(_, _, _)
FindFrom(s, sep, i) ==
    IF i + Len(sep) - 1 > Len(s) THEN 0
    ELSE IF SubSeq(s, i, i + Len(sep) - 1) = sep THEN i
    ELSE FindFrom(s, sep, i + 1)

\* s.split(sep)
RECURSIVE Split(_, _)
Split(s, sep) ==
    LET k == FindFrom(s, sep, 1) IN
    IF k = 0 THEN <<s>>
    ELSE <<SubSeq(s, 1, k - 1)>> \o Split(SubSeq(s, k + Len(sep), Len(s)), sep)

\* s.split(): the maximal runs of characters that are not whitespace.
RECURSIVE SplitWhitespace(_)
SplitWhitespace(s) ==
    LET t == LStripChars(s, Whitespace)
        ends == {i \in 1..Len(t) : Char(t, i) \in Whitespace}
    IN IF t = "" THEN <<>>
       ELSE IF ends = {} THEN <<t>>
       ELSE <<SubSeq(t, 1, SetMin(ends) - 1)>> \o SplitWhitespace(SubSeq(t, SetMin(ends), Len(t)))

\* s.count(c) for a character c
Count(s, c) == Cardinality({i \in 1..Len(s) : Char(s, i) = c})

\* sep.join(parts)
RECURSIVE Join(_, _)
Join(parts, sep) ==
    IF parts = <<>> THEN ""
    ELSE IF Len(parts) = 1 THEN parts[1]
    ELSE parts[1] \o sep \o Join(Tail(parts), sep)

\* strip_comments_and_blanks: whether the loop keeps the line.
KeepsLine(line, lang) ==
    LET stripped == Strip(line) IN
    IF stripped = "" THEN FALSE
    ELSE IF lang = "python" THEN
        IF StartsWith(stripped, "#") THEN FALSE
        ELSE IF /\ Contains(stripped, "#")
                /\ ~StartsWith(stripped, "\"")
                /\ ~StartsWith(stripped, "'")
                /\ Count(Split(stripped, "#")[1], "'") % 2 = 0
                /\ Count(Split(stripped, "#")[1], "\"") % 2 = 0
            THEN Strip(Split(stripped, "#")[1]) # ""
        ELSE TRUE
    ELSE IF lang \in {"javascript", "c", "csharp"} THEN
        IF StartsWith(stripped, "//") THEN FALSE
        ELSE LET code_part == IF Contains(stripped, "//")
                                 THEN Strip(Split(stripped, "//")[1]) ELSE stripped
             IN IF Contains(stripped, "//") /\ code_part = "" THEN FALSE
                ELSE ~(StartsWith(code_part, "/*") /\ EndsWith(code_part, "*/"))
    ELSE TRUE

\* strip_comments_and_blanks: the kept lines, as they were, joined by newlines.
strip_comments_and_blanks(code, lang) ==
    Join(SelectSeq(Split(code, "\n"), LAMBDA line : KeepsLine(line, lang)), "\n")

\* ast_node.get(field): None when the field is absent.
Get(ast_node, field) == IF field \in DOMAIN ast_node THEN {ast_node[field]} ELSE {}

\* ast_node.get(field, default) for a string default
GetOr(ast_node, field, default) ==
    IF field \in DOMAIN ast_node THEN ast_node[field] ELSE default

\* not x, for an optional string
Falsy(x) == x = {} \/ x = {""}

\* The symbol an import snippet yields: the token after 'import', without
\* leading and trailing commas; the empty set when there is no such token
\* and the symbol stays what it was.
ImportedName(snippet) ==
    LET parts == SplitWhitespace(snippet)
        at == {i \in 1..Len(parts) : parts[i] = "import"}
    IN IF Contains(snippet, "import") /\ at # {} /\ SetMin(at) + 1 <= Len(parts)
          THEN {RStripChars(LStripChars(parts[SetMin(at) + 1], {","}), {","})}
          ELSE {}

\* extract_symbol_info: <<symbol_name, qualified_name>>
extract_symbol_info(ast_node) ==
    LET name == Get(ast_node, "name")
        qualified_name == IF "qualified_name" \in DOMAIN ast_node
                             THEN {ast_node.qualified_name} ELSE name
        symbol_name ==
            IF ~Falsy(name) THEN name
            ELSE IF GetOr(ast_node, "chunk_type", "") = "import"
                THEN IF ImportedName(GetOr(ast_node, "snippet", "")) # {}
                        THEN ImportedName(GetOr(ast_node, "snippet", ""))
                        ELSE name
            ELSE IF GetOr(ast_node, "node_type", "") # ""
                THEN {GetOr(ast_node, "node_type", "") \o "_chunk"}
            ELSE name
    IN <<symbol_name, qualified_name>>

\* Mutant of process_ast_node: a snippet that is blank once cleaned is not
\* turned away.
process_ast_node_keeping_blank(ast_node) ==
    LET raw_snippet == GetOr(ast_node, "snippet", "")
        lang == GetOr(ast_node, "language", "unknown")
        cleaned_snippet == strip_comments_and_blanks(raw_snippet, lang)
        info == extract_symbol_info(ast_node)
    IN IF raw_snippet = "" THEN {}
       ELSE {[lang |-> lang,
              symbol |-> info[1],
              qualified_name |-> info[2],
              text |-> cleaned_snippet,
              hash |-> CodeChunkHash(cleaned_snippet),
              chunk_type |-> Get(ast_node, "chunk_type"),
              node_type |-> Get(ast_node, "node_type"),
              chunk_size_bytes |-> Len(cleaned_snippet)]}

\* process_ast_node: None ({}), or the chunk.
process_ast_node(ast_node) ==
    LET raw_snippet == GetOr(ast_node, "snippet", "")
        lang == GetOr(ast_node, "language", "unknown")
        cleaned_snippet == strip_comments_and_blanks(raw_snippet, lang)
        info == extract_symbol_info(ast_node)
    IN IF raw_snippet = "" THEN {}
       ELSE IF Strip(cleaned_snippet) = "" THEN {}
       ELSE {[lang |-> lang,
              symbol |-> info[1],
              qualified_name |-> info[2],
              text |-> cleaned_snippet,
              hash |-> CodeChunkHash(cleaned_snippet),
              chunk_type |-> Get(ast_node, "chunk_type"),
              node_type |-> Get(ast_node, "node_type"),
              chunk_size_bytes |-> Len(cleaned_snippet)]}

\* Snippets with the language of the file they were cut from.
SnippetCases ==
    {<<"def f():\n    # body\n\n    return 1", "python">>,
     <<"x = 1  # note", "python">>,
     <<"s = '#'", "python">>,
     <<"# only a comment\n\n   ", "python">>,
     <<"   \n\t", "python">>,
     <<"", "python">>,
     <<"f(); // call", "javascript">>,
     <<"// c\n/* d */", "javascript">>,
     <<"/* a */ g();", "c">>,
     <<"# kept", "unknown">>}

ImportCases ==
    {<<"import os", "python">>,
     <<"from os import path, sep", "python">>,
     <<"import", "python">>}

\* The name fields an extractor can attach to a node.
NamedMeta ==
    [name |-> "f", qualified_name |-> "K.f", chunk_type |-> "method",
     node_type |-> "function_definition"]

MetaCases ==
    {NamedMeta,
     [name |-> "f", node_type |-> "function_definition"],
     [chunk_type |-> "import", node_type |-> "import_statement"],
     [node_type |-> "import_statement"],
     [name |-> "", chunk_type |-> "import"],
     [chunk_type |-> "unknown"]}

\* A node: the name fields, with the snippet and the language when present.
AstNode(meta, snippet_case) ==
    [f \in DOMAIN meta \cup {"snippet", "language"} |->
        IF f = "snippet" THEN snippet_case[1]
        ELSE IF f = "language" THEN snippet_case[2]
        ELSE meta[f]]

AstNodePool ==
    {AstNode(NamedMeta, sc) : sc \in SnippetCases}
    \cup {AstNode(meta, sc) : meta \in MetaCases, sc \in ImportCases}
    \cup {[node_type |-> "comment"], [snippet |-> "y = 2", name |-> "y"]}

\* Largest number of nodes in an AST file.
MaxNodes == 2

AstFiles == UNION {[1..n -> AstNodePool] : n \in 0..MaxNodes}

CodeIdle ==
    /\ kpc = "idle"
    /\ ast_nodes = <<>>
    /\ nodeIdx = 1
    /\ code_chunks = <<>>

\* process_ast_file is called.
CodeInit ==
    /\ kpc = "load"
    /\ ast_nodes = <<>>
    /\ nodeIdx = 1
    /\ code_chunks = <<>>

\* process_ast_file: json.load gives a list of nodes.
LoadAstFile ==
    /\ kpc = "load"
    /\ ast_nodes' \in AstFiles
    /\ kpc' = "loop"
    /\ UNCHANGED <<nodeIdx, code_chunks>>
    /\ UNCHANGED otherThanCode

\* process_ast_file: the file cannot be loaded or does not hold a list.
LoadAstFileFails ==
    /\ kpc = "load"
    /\ kpc' = "load_failed"
    /\ UNCHANGED <<ast_nodes, nodeIdx, code_chunks>>
    /\ UNCHANGED otherThanCode

\* process_ast_file, loop body: process_ast_node gives a chunk.
AppendCodeChunk ==
    /\ kpc = "loop"
    /\ nodeIdx <= Len(ast_nodes)
    /\ process_ast_node(ast_nodes[nodeIdx]) # {}
    /\ code_chunks' = code_chunks \o
           <<CHOOSE c \in process_ast_node(ast_nodes[nodeIdx]) : TRUE>>
    /\ nodeIdx' = nodeIdx + 1
    /\ UNCHANGED <<kpc, ast_nodes>>
    /\ UNCHANGED otherThanCode

\* process_ast_file, loop body: process_ast_node gives None.
DropAstNode ==
    /\ kpc = "loop"
    /\ nodeIdx <= Len(ast_nodes)
    /\ process_ast_node(ast_nodes[nodeIdx]) = {}
    /\ nodeIdx' = nodeIdx + 1
    /\ UNCHANGED <<kpc, ast_nodes, code_chunks>>
    /\ UNCHANGED otherThanCode

\* process_ast_file returns chunks.
ReturnCodeChunks ==
    /\ kpc = "loop"
    /\ nodeIdx > Len(ast_nodes)
    /\ kpc' = "done"
    /\ UNCHANGED <<ast_nodes, nodeIdx, code_chunks>>
    /\ UNCHANGED otherThanCode

CodeNext ==
    \/ LoadAstFile
    \/ LoadAstFileFails
    \/ AppendCodeChunk
    \/ DropAstNode
    \/ ReturnCodeChunks


(***************************************************************************)
(* process_chunk run by two workers on one set of seen hashes              *)
(*                                                                         *)
(* The code has no lock around the set: a worker's membership test (line   *)
(* 207) and its insert (line 210) are two steps, and the other worker can  *)
(* run between them.                                                       *)
(***************************************************************************)
Workers == {1, 2}

\* Bound on the number of process_chunk calls the two workers make together.
MaxWorkerCalls == 3

\* The records the workers are given: two records with the same hash field,
\* records without one, and a record that is not valid.
WorkerRecords ==
    {[chunk_id |-> "a", text |-> "def f(): return 1"],
     [chunk_id |-> "b", text |-> "def f(): return 1"],
     [chunk_id |-> "a", text |-> "def f(): return 1",
      hash |-> DocumentChunkHash("def f(): return 1")],
     [chunk_id |-> "b", text |-> "def f(): return 1",
      hash |-> DocumentChunkHash("def f(): return 1")],
     [chunk_id |-> "a", text |-> "pass"]}

NoRecord == [chunk_id |-> ""]

\* The calls begun so far.
WorkerCalls == Cardinality({p \in 1..Len(wlog) : wlog[p].event # "insert"})

WorkersIdle ==
    /\ wpc = [w \in Workers |-> "idle"]
    /\ wchunk = [w \in Workers |-> NoRecord]
    /\ shared_hashes = {}
    /\ wlog = <<>>

\* Two workers on a fresh ingester.
WorkersInit == WorkersIdle

Logged(w, chunk, event) ==
    wlog' = Append(wlog, [worker |-> w, chunk |-> chunk, event |-> event])

\* process_chunk up to the membership test: the record is turned away as
\* invalid or as a duplicate, or it passes the test.
WorkerTest(w) ==
    /\ wpc[w] = "idle"
    /\ WorkerCalls < MaxWorkerCalls
    /\ \E chunk \in WorkerRecords :
          IF ~validate_chunk(chunk)[1]
              THEN Logged(w, chunk, "invalid") /\ UNCHANGED <<wpc, wchunk>>
          ELSE IF compute_chunk_hash(chunk) \in shared_hashes
              THEN Logged(w, chunk, "duplicate") /\ UNCHANGED <<wpc, wchunk>>
          ELSE /\ Logged(w, chunk, "passed")
               /\ wpc' = [wpc EXCEPT ![w] = "tested"]
               /\ wchunk' = [wchunk EXCEPT ![w] = chunk]
    /\ UNCHANGED shared_hashes
    /\ UNCHANGED otherThanWorkers

\* Mutant of WorkerInsert: the hash is not added to the set.
WorkerInsertWithoutAdd(w) ==
    /\ wpc[w] = "tested"
    /\ UNCHANGED shared_hashes
    /\ Logged(w, wchunk[w], "insert")
    /\ wpc' = [wpc EXCEPT ![w] = "idle"]
    /\ wchunk' = [wchunk EXCEPT ![w] = NoRecord]
    /\ UNCHANGED otherThanWorkers

\* process_chunk from the insert on: the hash is added to the set and the
\* record is accepted.
WorkerInsert(w) ==
    /\ wpc[w] = "tested"
    /\ shared_hashes' = shared_hashes \cup {compute_chunk_hash(wchunk[w])}
    /\ Logged(w, wchunk[w], "insert")
    /\ wpc' = [wpc EXCEPT ![w] = "idle"]
    /\ wchunk' = [wchunk EXCEPT ![w] = NoRecord]
    /\ UNCHANGED otherThanWorkers

WorkersNext == \E w \in Workers : WorkerTest(w) \/ WorkerInsert(w)

(***************************************************************************)
(* Specifications                                                          *)
(***************************************************************************)
InitChunk == ChunkInit /\ IngestIdle /\ SearchIdle /\ ExtractIdle /\ ModelsIdle /\ CodeIdle /\ WorkersIdle

SpecChunk == InitChunk /\ [][ChunkNext]_vars

\* max_min_chunking is a sequential loop: a step that can be taken is taken.
SpecChunkFair == InitChunk /\ [][ChunkNext]_vars /\ WF_vars(ChunkNext)

InitIngest == IngestIdle /\ ChunkIdle /\ SearchIdle /\ ExtractIdle /\ ModelsIdle /\ CodeIdle /\ WorkersIdle

SpecIngest == InitIngest /\ [][IngestNext]_vars

InitSearch == SearchInit /\ ChunkIdle /\ IngestIdle /\ ExtractIdle /\ ModelsIdle /\ CodeIdle /\ WorkersIdle

SpecSearch == InitSearch /\ [][SearchNext]_vars

InitExtract == ExtractInit /\ ChunkIdle /\ IngestIdle /\ SearchIdle /\ ModelsIdle /\ CodeIdle /\ WorkersIdle

SpecExtract == InitExtract /\ [][ExtractNext]_vars

InitModels == ModelsInit /\ ChunkIdle /\ IngestIdle /\ SearchIdle /\ ExtractIdle /\ CodeIdle /\ WorkersIdle

SpecModels == InitModels /\ [][ModelsNext]_vars

InitCode == CodeInit /\ ChunkIdle /\ IngestIdle /\ SearchIdle /\ ExtractIdle /\ ModelsIdle /\ WorkersIdle

SpecCode == InitCode /\ [][CodeNext]_vars

InitWorkers ==
    WorkersInit /\ ChunkIdle /\ IngestIdle /\ SearchIdle /\ ExtractIdle /\ ModelsIdle /\ CodeIdle

SpecWorkers == InitWorkers /\ [][WorkersNext]_vars

(***************************************************************************)
(* Properties of max_min_chunking                                          *)
(***************************************************************************)
\* Number of times sentence index i occurs in the closed chunks.
Occurrences(i) ==
    SumSeq([k \in 1..Len(chunks) |->
               Cardinality({j \in 1..Len(chunks[k]) : chunks[k][j] = i})])

\* token_count of closed chunk k.
TokenCount(k) == count_tokens(chunks[k])

InTokenRange(k) == min_tokens <= TokenCount(k) /\ TokenCount(k) <= max_tokens

OutOfRangeChunks == {k \in 1..Len(chunks) : ~InTokenRange(k)}

\* C1: the chunks returned by max_min_chunking partition the sentence
\* indices: every index 0..n-1 occurs exactly once over all chunks, and no
\* chunk holds an index outside 0..n-1.
C1_ChunksPartitionSentences ==
    cpc = "done" =>
        /\ \A i \in SentenceIndices : Occurrences(i) = 1
        /\ \A k \in 1..Len(chunks) : Range(chunks[k]) \subseteq SentenceIndices

\* A finished run over three sentences that produced a multi-sentence chunk
\* closed by the fallback and a further chunk.
C1_Witness ==
    /\ cpc = "done"
    /\ NumSentences = 3
    /\ Len(chunks) = 2
    /\ closedBy[1] = "fallback"

\* C2 as stated: at most one chunk of the document has a token count outside
\* [min_tokens, max_tokens], and that chunk was closed by the fallback
\* force-append.
C2_AtMostOneFallbackChunkOutOfRange ==
    cpc = "done" =>
        /\ Cardinality(OutOfRangeChunks) <= 1
        /\ \A k \in OutOfRangeChunks : closedBy[k] = "fallback"

\* C2 amended: with min_tokens <= max_tokens every closed chunk is within
\* [min_tokens, max_tokens] unless it was closed by the fallback force-append
\* (any number of chunks of one document can be), or it is a single sentence
\* whose own count exceeds max_tokens, or it is the last chunk of the document
\* and is under min_tokens.
C2_OutOfRangeOnlyByFallbackOversizeOrLast ==
    min_tokens <= max_tokens =>
        \A k \in 1..Len(chunks) :
            \/ InTokenRange(k)
            \/ closedBy[k] = "fallback"
            \/ Len(chunks[k]) = 1 /\ TokenCount(k) > max_tokens
            \/ /\ k = Len(chunks)
               /\ remaining_indices = {}
               /\ cpc \in {"outer", "done"}
               /\ TokenCount(k) < min_tokens

\* A finished run with min_tokens <= max_tokens that produced a fallback-closed
\* chunk above max_tokens followed by a last chunk under min_tokens.
C2_Witness ==
    /\ cpc = "done"
    /\ min_tokens <= max_tokens
    /\ Len(chunks) = 2
    /\ closedBy[1] = "fallback" /\ TokenCount(1) > max_tokens
    /\ TokenCount(2) < min_tokens

\* Sentence i (0-based) has more tokens than max_tokens on its own.
Oversize(i) == sentences[i + 1] > max_tokens

\* C18 as stated: any sentence whose own token count exceeds max_tokens is
\* emitted as a chunk that contains only that sentence, wherever it occurs in
\* the document and whatever the other sentences are.
C18_OversizeSentenceAlone ==
    cpc = "done" =>
        \A i \in SentenceIndices :
            Oversize(i) => \E k \in 1..Len(chunks) : chunks[k] = <<i>>

\* C18 amended: a sentence whose own token count exceeds max_tokens is never
\* added by the similarity-driven step; it is emitted as a chunk that contains
\* only that sentence when it opens a chunk, and otherwise it is the sentence
\* the fallback force-appended to a chunk that was under min_tokens, as the
\* last sentence of that chunk.
C18_OversizeSentenceAloneOrForced ==
    /\ [](\A k \in 1..Len(chunks) : \A p \in 1..Len(chunks[k]) :
            Oversize(chunks[k][p]) =>
                \/ chunks[k] = <<chunks[k][p]>>
                \/ /\ p = Len(chunks[k])
                   /\ closedBy[k] = "fallback"
                   /\ count_tokens(SubSeq(chunks[k], 1, p - 1)) < min_tokens)
    /\ [][(cpc = "inner" /\ cpc' = "inner" /\ Len(current_chunk') = Len(current_chunk) + 1)
            => ~Oversize(current_chunk'[Len(current_chunk')])]_vars
    /\ [][(cpc = "outer" /\ cpc' = "inner" /\ Oversize(current_chunk'[1]))
            => (cpc' = "inner" /\ ~InnerCond')]_vars

\* An oversized sentence that comes third, after a chunk of two sentences that
\* reached min_tokens, is a chunk of its own.
C18_Witness ==
    /\ cpc = "done"
    /\ sentences = <<3, 1, 7>>
    /\ max_tokens = 5
    /\ chunks = <<<<0, 1>>, <<2>>>>

\* The step is a fallback force-append.
FallbackStep == Len(closedBy') = Len(closedBy) + 1 /\ closedBy'[Len(closedBy')] = "fallback"

\* Some remaining sentence would fit the open chunk within max_tokens.
SomeSentenceFits == \E c \in remaining_indices : Fits(c, current_chunk)

\* C20: the fallback force-append happens only when the open chunk is under
\* min_tokens and no remaining sentence would fit within max_tokens; as long
\* as some remaining sentence fits, one that fits is added by the
\* similarity-driven step instead; a fallback appends exactly one sentence
\* and the chunk is closed with it.
C20_FallbackOnlyWhenNothingFits ==
    /\ [][FallbackStep => (chunk_tokens < min_tokens /\ ~SomeSentenceFits)]_vars
    /\ [][(cpc = "inner" /\ InnerCond /\ SomeSentenceFits) =>
            /\ cpc' = "inner"
            /\ Len(current_chunk') = Len(current_chunk) + 1
            /\ SubSeq(current_chunk', 1, Len(current_chunk)) = current_chunk
            /\ Fits(current_chunk'[Len(current_chunk')], current_chunk)]_vars
    /\ [][FallbackStep =>
            /\ Len(current_chunk') = Len(current_chunk) + 1
            /\ SubSeq(current_chunk', 1, Len(current_chunk)) = current_chunk
            /\ chunks' = Append(chunks, current_chunk')
            /\ cpc' = "outer"]_vars

\* The step is a greedy append: the inner loop goes on with one more sentence
\* in the open chunk.
GreedyStep ==
    /\ cpc = "inner" /\ cpc' = "inner"
    /\ Len(current_chunk') = Len(current_chunk) + 1

\* C21: every sentence appended by the greedy step fits (the open chunk with
\* it has at most max_tokens tokens) and is a max-min choice: no other
\* still-unassigned sentence that fits has a strictly larger minimum cosine
\* similarity to the sentences already in the open chunk.
C21_GreedyAppendIsMaxMin ==
    [][GreedyStep =>
         LET best == current_chunk'[Len(current_chunk')] IN
         /\ best \in remaining_indices
         /\ count_tokens(current_chunk') <= max_tokens
         /\ \A d \in remaining_indices :
               count_tokens(Append(current_chunk, d)) <= max_tokens =>
                   min_similarity(d, current_chunk) <= min_similarity(best, current_chunk)]_vars

\* Three one-token sentences, the third parallel and the second orthogonal to
\* the first: the greedy step took the third before the second.
C21_Witness ==
    /\ cpc = "done"
    /\ sentences = <<1, 1, 1>>
    /\ embeddings = <<<<1, 0>>, <<0, 1>>, <<1, 0>>>>
    /\ chunks = <<<<0, 2, 1>>>>

\* The step assigns exactly one more sentence to the open chunk.
AssignsOneSentence ==
    /\ Len(current_chunk') = Len(current_chunk) + 1
    /\ SubSeq(current_chunk', 1, Len(current_chunk)) = current_chunk
    /\ current_chunk'[Len(current_chunk')] \in remaining_indices
    /\ remaining_indices' = remaining_indices \ {current_chunk'[Len(current_chunk')]}

\* The step closes the open chunk.
ClosesChunk == Len(chunks') = Len(chunks) + 1 /\ cpc' = "outer"

\* C30: max_min_chunking terminates for every finite sentence list and every
\* setting of min_tokens and max_tokens: each iteration of the inner loop
\* either assigns one more sentence to the open chunk or closes it, each
\* outer iteration assigns at least one sentence, and no step gives a
\* sentence back.
C30_ChunkingTerminates ==
    /\ <>(cpc = "done")
    /\ [][(cpc = "inner" /\ cpc' # cpc) => ClosesChunk]_vars
    /\ [][(cpc = "inner" /\ cpc' = cpc) => AssignsOneSentence]_vars
    /\ [][(cpc = "outer" /\ cpc' = "inner") =>
            /\ remaining_indices' \subseteq remaining_indices
            /\ Cardinality(remaining_indices') = Cardinality(remaining_indices) - 1
            /\ Len(current_chunk') = 1]_vars
    /\ [][remaining_indices' \subseteq remaining_indices \/ cpc = "start"]_vars

\* A document of three sentences was chunked to the end, with a chunk that
\* grew by the greedy step and a chunk closed by the fallback.
C30_Witness ==
    /\ cpc = "done"
    /\ NumSentences = 3
    /\ remaining_indices = {}
    /\ Len(chunks) = 2
    /\ closedBy[2] = "fallback"

(***************************************************************************)
(* Properties of ingest_files and add_chunks                               *)
(***************************************************************************)
Valid(chunk) == validate_chunk(chunk)[1]

\* The record as it was loaded: the chunk without the content_type that
\* process_chunk sets.
AsLoaded(chunk) == [f \in DOMAIN chunk \ {"content_type"} |-> chunk[f]]

\* Record i of the current call is valid and no earlier valid record of the
\* call, and no record of an earlier call, has its hash.
FirstWithHash(i) ==
    /\ Valid(loaded[i].chunk)
    /\ compute_chunk_hash(loaded[i].chunk) \notin statsAtStart.duplicate_hashes
    /\ \A j \in 1..(i - 1) :
          Valid(loaded[j].chunk) =>
              compute_chunk_hash(loaded[j].chunk) # compute_chunk_hash(loaded[i].chunk)

IncludedRecords == SelectSeq(loaded, LAMBDA e : e.include)

\* ceil(len(chunks) / batch_size)
NumBatches == (Len(all_chunks) + batch_size - 1) \div batch_size

FailedBatches == {k \in 1..Len(batchLog) : batchLog[k].outcome # "ok"}

\* C3: in one ingest_files call the accepted records are exactly the first
\* valid records of each hash in traversal order (on a fresh ingester: no hash
\* seen before the call); every other record is kept out of all_chunks, which
\* is all the store is given, and raises chunks_skipped by one; when no batch
\* fails chunks_ingested is the number of distinct hashes accepted.
C3_FirstOccurrenceOfHashWins ==
    /\ \A i \in 1..Len(loaded) : loaded[i].include <=> FirstWithHash(i)
    /\ Len(all_chunks) = Len(IncludedRecords)
    /\ \A k \in 1..Len(all_chunks) : AsLoaded(all_chunks[k]) = IncludedRecords[k].chunk
    /\ stats.chunks_skipped - statsAtStart.chunks_skipped
           = Cardinality({i \in 1..Len(loaded) : ~loaded[i].include})
    /\ (ipc = "done" /\ all_chunks # <<>> /\ errors = <<>>) =>
           stats.chunks_ingested = Cardinality({i \in 1..Len(loaded) : FirstWithHash(i)})

\* The same record ingested twice by a fresh ingester: one ingested, one skipped.
C3_Witness ==
    /\ ipc = "done"
    /\ call = 1
    /\ Len(loaded) = 2
    /\ loaded[1].chunk = loaded[2].chunk
    /\ loaded[1].include
    /\ loaded[2].reason = "Duplicate hash"
    /\ stats.chunks_ingested = 1
    /\ stats.chunks_skipped = 1

\* C4 as stated: of two valid records with identical text loaded in one call,
\* the second is treated as a duplicate, whatever their chunk_id and other
\* fields.
C4_IdenticalTextIsDuplicate ==
    \A i, j \in 1..Len(loaded) :
        (i < j /\ Valid(loaded[i].chunk) /\ Valid(loaded[j].chunk)
           /\ loaded[i].chunk.text = loaded[j].chunk.text)
        => ~loaded[j].include

\* Two records have the same source of dedup key: both carry the same hash
\* field, or neither carries one and their chunk_id are equal.
SameKeySource(c, d) ==
    \/ HasField(c, "hash") /\ HasField(d, "hash") /\ c.hash = d.hash
    \/ ~HasField(c, "hash") /\ ~HasField(d, "hash") /\ c.chunk_id = d.chunk_id

\* C4 amended: the dedup hash is the record's hash field when it has one and
\* md5(chunk_id + text) otherwise; of two valid records with identical text,
\* the second is dropped as a duplicate when both carry the same hash field
\* (whatever their chunk_id) or neither carries one and their chunk_id are
\* equal.
C4_IdenticalTextAndKeySourceIsDuplicate ==
    \A i, j \in 1..Len(loaded) :
        (i < j /\ Valid(loaded[i].chunk) /\ Valid(loaded[j].chunk)
           /\ loaded[i].chunk.text = loaded[j].chunk.text
           /\ SameKeySource(loaded[i].chunk, loaded[j].chunk))
        => ~loaded[j].include /\ loaded[j].reason = "Duplicate hash"

\* Two records with the same text and hash field and different chunk_id: the
\* second was dropped as a duplicate.
C4_Witness ==
    /\ Len(loaded) = 2
    /\ loaded[1].include
    /\ HasField(loaded[1].chunk, "hash") /\ HasField(loaded[2].chunk, "hash")
    /\ loaded[1].chunk.hash = loaded[2].chunk.hash
    /\ loaded[1].chunk.text = loaded[2].chunk.text
    /\ loaded[1].chunk.chunk_id # loaded[2].chunk.chunk_id
    /\ loaded[2].reason = "Duplicate hash"

\* Positions in all_chunks of the chunks handed to _collection.add so far in
\* the current call: those of the batches whose embedding did not raise.
HandedToStore ==
    {p \in 1..Len(all_chunks) :
        \E k \in 1..Len(batchLog) :
            /\ batchLog[k].outcome \in {"ok", "store"}
            /\ batchLog[k].start < p
            /\ p <= batchLog[k].start + batchLog[k].size}

\* C5: the chunk_id values handed to the store during one ingest_files call
\* are pairwise distinct.
C5_ChunkIdsHandedToStoreDistinct ==
    \A p, q \in HandedToStore :
        p # q => all_chunks[p].chunk_id # all_chunks[q].chunk_id

\* C9: batches are independent units of failure: the batches are attempted in
\* order whatever the outcome of the earlier ones, all of them by the time
\* add_chunks is over; processed is the total size of the batches inserted and
\* errors holds exactly one entry per failed batch.
C9_BatchesAreIndependent ==
    /\ \A k \in 1..Len(batchLog) : batchLog[k].start = (k - 1) * batch_size
    /\ (ipc \in {"done", "raised"} /\ all_chunks # <<>>) => Len(batchLog) = NumBatches
    /\ processed = SumSeq([k \in 1..Len(batchLog) |->
                              IF batchLog[k].outcome = "ok" THEN batchLog[k].size ELSE 0])
    /\ Len(errors) = Cardinality(FailedBatches)
    /\ \A k \in FailedBatches :
          Cardinality({e \in 1..Len(errors) : errors[e].batch = k}) = 1

\* The first of two batches failed at embedding and the second was inserted.
C9_Witness ==
    /\ ipc = "done"
    /\ Len(batchLog) = 2
    /\ batchLog[1].outcome = "embed"
    /\ batchLog[2].outcome = "ok"
    /\ stats.chunks_ingested = 1
    /\ Len(errors) = 1

\* C10 as stated: a store failure while a batch is inserted is propagated to
\* the caller and ends the run; it is not absorbed into the error list.
C10_StoreFailurePropagates ==
    \A k \in 1..Len(batchLog) :
        batchLog[k].outcome = "store" =>
            /\ ipc = "raised"
            /\ \A e \in 1..Len(errors) : errors[e].batch # k

\* C10 amended: a store failure raised by the insert of a batch is absorbed
\* into the per-batch error list and the run goes on; an exception reaches
\* the caller of add_chunks / ingest_files only from the collection count
\* after the last batch, and then the ingester's chunks_ingested is left as
\* it was and no batch error of the call is added to the ingester's errors.
C10_OnlyCountFailurePropagates ==
    /\ \A k \in 1..Len(batchLog) :
          batchLog[k].outcome = "store" =>
              \E e \in 1..Len(errors) : errors[e] = [batch |-> k, kind |-> "store"]
    /\ ipc = "raised" =>
          /\ batch_start >= Len(all_chunks)
          /\ Len(batchLog) = NumBatches
          /\ stats.chunks_ingested = statsAtStart.chunks_ingested
          /\ \A e \in (Len(statsAtStart.errors) + 1)..Len(stats.errors) :
                "batch" \notin DOMAIN stats.errors[e]

\* A call whose first insert failed and was recorded, and that ended with the
\* exception of the collection count.
C10_Witness ==
    /\ ipc = "raised"
    /\ Len(batchLog) = 2
    /\ batchLog[1].outcome = "store"
    /\ batchLog[2].outcome = "ok"
    /\ errors = <<[batch |-> 1, kind |-> "store"]>>
    /\ processed = 1

\* A record the validation contract rejects: it lacks chunk_id or text, or
\* its text is empty, whitespace-only, shorter than 10 or longer than 50000
\* characters.
LacksOrBadText(chunk) ==
    \/ "chunk_id" \notin DOMAIN chunk
    \/ "text" \notin DOMAIN chunk
    \/ chunk.text = ""
    \/ IsBlank(chunk.text)
    \/ Len(chunk.text) < 10
    \/ Len(chunk.text) > 50000

\* The step loads a record of that kind.
LoadsRejected ==
    /\ Len(loaded') = Len(loaded) + 1
    /\ LacksOrBadText(loaded'[Len(loaded')].chunk)

\* C11: a loaded record that lacks chunk_id or text, or whose text is empty,
\* whitespace-only, shorter than 10 or longer than 50000 characters, is never
\* passed to the store; loading it raises chunks_skipped by exactly one,
\* leaves the set of seen hashes and all_chunks as they were, and leaves the
\* file loop where it was, ready for the next record or file.
C11_InvalidRecordSkipped ==
    /\ [](/\ \A i \in 1..Len(loaded) : LacksOrBadText(loaded[i].chunk) => ~loaded[i].include
          /\ \A k \in 1..Len(all_chunks) : ~LacksOrBadText(all_chunks[k])
          /\ \A k \in 1..Len(collection) : ~LacksOrBadText(collection[k]))
    /\ [][LoadsRejected =>
            /\ stats'.chunks_skipped = stats.chunks_skipped + 1
            /\ stats'.duplicate_hashes = stats.duplicate_hashes
            /\ stats'.chunks_loaded = stats.chunks_loaded + 1
            /\ stats'.errors = stats.errors
            /\ all_chunks' = all_chunks
            /\ ipc' = "loading"
            /\ fileIdx' = fileIdx]_vars

\* A run whose first file holds a record with an over-long text and whose
\* second file holds a valid record: one skipped, one ingested.
C11_Witness ==
    /\ ipc = "done"
    /\ call = 1
    /\ Len(loaded) = 2
    /\ loaded[1].chunk = [chunk_id |-> "a", text |-> LongText]
    /\ ~loaded[1].include
    /\ loaded[2].include
    /\ stats.files_processed = 2
    /\ stats.chunks_skipped = 1
    /\ stats.chunks_ingested = 1
    /\ Cardinality(stats.duplicate_hashes) = 1

\* The counts and the error list every summary is to contain.
SummaryKeys == {"files_processed", "chunks_loaded", "chunks_skipped", "chunks_ingested", "errors"}

\* C12: every run started with ingest_from_directory on an existing directory
\* that finishes has returned a summary containing files_processed,
\* chunks_loaded, chunks_skipped, chunks_ingested and errors, whatever
\* happened: unreadable files, malformed lines, failed batches, no file found.
C12_RunReturnsFullSummary ==
    ipc = "done" => SummaryKeys \subseteq DOMAIN result

\* C23: at the end of an ingest_files run, for every record that was dropped
\* with reason 'Duplicate hash' the store holds an entry carrying that hash:
\* a hash is treated as seen only if its first occurrence was persisted, also
\* when some batches failed.
C23_DuplicateDroppedOnlyIfStored ==
    ipc = "done" =>
        \A i \in 1..Len(loaded) :
            loaded[i].reason = "Duplicate hash" =>
                \E e \in 1..Len(collection) :
                    compute_chunk_hash(collection[e]) = compute_chunk_hash(loaded[i].chunk)

\* Number of chunks in the batches of the current call that failed.
FailedChunksOfCall ==
    SumSeq([k \in 1..Len(batchLog) |->
               IF batchLog[k].outcome # "ok" THEN batchLog[k].size ELSE 0])

\* Number of chunks in the batches that failed in any call so far: every
\* loaded record that was not skipped went into one batch, and a batch is in
\* the store whole or not at all.
FailedChunksOfAllCalls == (stats.chunks_loaded - stats.chunks_skipped) - Len(collection)

\* C24: after every ingest_files call on a ChunkIngester, a second call on
\* the same instance included, the reported counts balance: chunks_loaded =
\* chunks_skipped + chunks_ingested + the number of chunks in batches that
\* failed (counted over the call, or over all the calls made).
C24_ReportedCountsBalance ==
    (ipc = "done" /\ jsonl_files # <<>>) =>
        \/ stats.chunks_loaded
               = stats.chunks_skipped + stats.chunks_ingested + FailedChunksOfCall
        \/ stats.chunks_loaded
               = stats.chunks_skipped + stats.chunks_ingested + FailedChunksOfAllCalls

\* Number of chunks the current add_chunks call inserted in the store.
InsertedByCall ==
    SumSeq([k \in 1..Len(batchLog) |->
               IF batchLog[k].outcome = "ok" THEN batchLog[k].size ELSE 0])

\* C25: when add_chunks returns, document_chunks_added + code_chunks_added
\* equals chunks_processed, and the running stats document_chunks +
\* code_chunks have grown by exactly the number of chunks inserted in the
\* store, also when a batch failed part-way.
C25_AddedCountsMatchInserted ==
    [][(ipc = "adding" /\ ipc' = "done") =>
         /\ added.document + added.code = processed
         /\ (dbstats'.document_chunks + dbstats'.code_chunks)
                - (dbstats.document_chunks + dbstats.code_chunks) = InsertedByCall]_vars

(***************************************************************************)
(* Properties of extract_units                                             *)
(***************************************************************************)
\* The methods of a class: the method nodes met when its subtree is scanned
\* in source order, those of nested classes and wrapped ones included, a
\* function defined inside a method not being one.
RECURSIVE MethodsUnder(_, _)
MethodsUnder(nodes, lang) ==
    IF nodes = <<>> THEN <<>>
    ELSE (IF Head(nodes).type \in METHOD_NODES[lang] THEN <<Head(nodes)>>
          ELSE MethodsUnder(Head(nodes).children, lang))
         \o MethodsUnder(Tail(nodes), lang)

\* The step handles the top-level child `child`.
Handles(child) ==
    /\ InLoop
    /\ child = root_children[childIdx]
    /\ child.type \in TOP_LEVEL_NODES[language]
    /\ childIdx' = childIdx + 1

\* The units the step appended.
NewUnits == SubSeq(units', Len(units) + 1, Len(units'))

C14_OversizeFunctionSplitInTwoOrMore ==
    [][\A child \in Range(root_children) :
         (/\ Handles(child)
          /\ child.type \in METHOD_NODES[language]
          /\ SnippetBytes(child.lines) > MAX_CHUNK_SIZE)
         => /\ Len(NewUnits) >= 2
            /\ \A i \in 1..Len(NewUnits) : NewUnits[i].chunk_type = "function_part"]_vars

\* C15: every function_part chunk of a split function, except possibly the
\* last one, has a chunk_size_bytes (newlines included) of at most
\* TARGET_CHUNK_SIZE.
C15_PartsWithinTargetSize ==
    [][\A child \in Range(root_children) :
         (/\ Handles(child)
          /\ child.type \in METHOD_NODES[language]
          /\ SnippetBytes(child.lines) > MAX_CHUNK_SIZE)
         => \A i \in 1..(Len(NewUnits) - 1) :
               NewUnits[i].chunk_size_bytes <= TARGET_CHUNK_SIZE]_vars

\* The lines of the parts, one part after the other.
RECURSIVE LinesOfParts(_)
LinesOfParts(parts) ==
    IF parts = <<>> THEN <<>> ELSE Head(parts).snippet \o LinesOfParts(Tail(parts))

\* The size of the text obtained by joining the parts with a newline.
JoinedPartsBytes(parts) ==
    SumSeq([i \in 1..Len(parts) |-> parts[i].chunk_size_bytes]) + Len(parts) - 1

\* C28: split_large_function is lossless: the parts it returns, joined with
\* a newline in order, reproduce the function's source snippet; no line is
\* lost, duplicated or reordered, and no part is empty of lines.
C28_SplitIsLossless ==
    [][\A child \in Range(root_children) :
         (/\ Handles(child)
          /\ Len(NewUnits) >= 1
          /\ NewUnits[1].chunk_type = "function_part")
         => /\ LinesOfParts(NewUnits) = child.lines
            /\ JoinedPartsBytes(NewUnits) = SnippetBytes(child.lines)
            /\ \A i \in 1..Len(NewUnits) : NewUnits[i].snippet # <<>>]_vars

\* A function of three lines was split in a part of its first two lines and
\* a part of its third.
C28_Witness ==
    /\ Len(units) = 2
    /\ childIdx = 2
    /\ root_children[1].lines = <<0, 2040, 4097>>
    /\ units[1].chunk_type = "function_part" /\ units[1].snippet = <<0, 2040>>
    /\ units[2].chunk_type = "function_part" /\ units[2].snippet = <<4097>>

(***************************************************************************)
(* Properties of the embedding models                                      *)
(***************************************************************************)
\* C16: over any sequence of generate_embedding, add_chunks, search,
\* get_stats, reset_database and close calls on one VectorDatabase, the
\* document model and the code model are each constructed at most once, and
\* a model that is loaded is never replaced.
C16_ModelsLoadedAtMostOnce ==
    /\ [](constructed.document <= 1 /\ constructed.code <= 1)
    /\ [][/\ document_model # 0 => document_model' = document_model
          /\ code_model # 0 => code_model' = code_model]_vars

\* The document model was loaded by the first call and is still the first
\* instance after a reset, a close and one more use.
C16_Witness ==
    /\ db_calls = <<"generate_embedding", "initialize_database", "reset_database", "close",
                    "generate_embedding">>
    /\ document_model = 1
    /\ constructed.document = 1

(***************************************************************************)
(* Properties of process_ast_file                                          *)
(***************************************************************************)
\* The node the loop of process_ast_file is at has no snippet, an empty one,
\* or one that is empty or whitespace-only once comments and blank lines are
\* stripped.
SnippetVanishes(node) ==
    \/ "snippet" \notin DOMAIN node
    \/ node.snippet = ""
    \/ IsBlank(strip_comments_and_blanks(node.snippet, GetOr(node, "language", "unknown")))

\* C17: every chunk process_ast_node returns has a text that is neither empty
\* nor whitespace-only, and a node whose snippet is empty, or becomes empty or
\* whitespace-only after comment and blank-line stripping, yields no chunk.
C17_NoEmptyCodeChunk ==
    /\ [](\A k \in 1..Len(code_chunks) :
            code_chunks[k].text # "" /\ ~IsBlank(code_chunks[k].text))
    /\ [][(nodeIdx' = nodeIdx + 1 /\ SnippetVanishes(ast_nodes[nodeIdx]))
            => code_chunks' = code_chunks]_vars

\* A file whose first node holds only a comment and blank lines and whose
\* second node is a function with a comment line and a blank line: one chunk,
\* with the two code lines of the function.
C17_Witness ==
    /\ kpc = "done"
    /\ Len(ast_nodes) = 2
    /\ ast_nodes[1] = AstNode(NamedMeta, <<"# only a comment\n\n   ", "python">>)
    /\ ast_nodes[2] = AstNode(NamedMeta, <<"def f():\n    # body\n\n    return 1", "python">>)
    /\ Len(code_chunks) = 1
    /\ code_chunks[1].text = "def f():\n    return 1"

\* The symbol the claim gives a chunk made from the node: the explicit name;
\* else, for an import chunk, the imported-name token; else '{node_type}_chunk'.
ResolvedSymbol(node) ==
    IF "name" \in DOMAIN node /\ node.name # "" THEN {node.name}
    ELSE IF GetOr(node, "chunk_type", "") = "import" THEN ImportedName(node.snippet)
    ELSE {GetOr(node, "node_type", "") \o "_chunk"}

\* C19: every emitted code chunk carries a non-empty symbol and a non-empty
\* qualified_name, the symbol being the node's explicit name, else for an
\* import chunk the imported-name token, else '{node_type}_chunk'.
C19_ChunkCarriesSymbolAndQualifiedName ==
    /\ [](\A k \in 1..Len(code_chunks) :
            ~Falsy(code_chunks[k].symbol) /\ ~Falsy(code_chunks[k].qualified_name))
    /\ [][(nodeIdx' = nodeIdx + 1 /\ Len(code_chunks') = Len(code_chunks) + 1)
            => code_chunks'[Len(code_chunks')].symbol = ResolvedSymbol(ast_nodes[nodeIdx])]_vars

\* Languages whose comments strip_comments_and_blanks knows.
CommentLanguages == {"python", "javascript", "c", "csharp"}

\* The comment marker of a language.
CommentMarker(lang) == IF lang = "python" THEN "#" ELSE "//"

\* The line is a comment and nothing else.
FullLineComment(line, lang) ==
    \/ StartsWith(Strip(line), CommentMarker(lang))
    \/ lang # "python" /\ StartsWith(Strip(line), "/*") /\ EndsWith(Strip(line), "*/")

\* The line has code followed by a comment whose marker comes after an even
\* number of single and of double quotes.
TrailingInlineComment(line, lang) ==
    LET stripped == Strip(line)
        before == Split(stripped, CommentMarker(lang))[1]
    IN /\ Contains(stripped, CommentMarker(lang))
       /\ ~StartsWith(stripped, CommentMarker(lang))
       /\ ~StartsWith(stripped, "\"") /\ ~StartsWith(stripped, "'")
       /\ Count(before, "'") % 2 = 0
       /\ Count(before, "\"") % 2 = 0

\* C22: for python, javascript, c and csharp snippets, the cleaned text that
\* is hashed and stored contains no blank line, no full-line comment and no
\* trailing inline comment whose marker lies outside a string literal by the
\* quote-balance heuristic.
C22_CleanedTextHasNoComments ==
    \A k \in 1..Len(code_chunks) :
        code_chunks[k].lang \in CommentLanguages =>
            LET lines == Split(code_chunks[k].text, "\n") IN
            \A n \in 1..Len(lines) :
                /\ ~IsBlank(lines[n])
                /\ ~FullLineComment(lines[n], code_chunks[k].lang)
                /\ ~TrailingInlineComment(lines[n], code_chunks[k].lang)

\* The last of initialize_database, reset_database and close among the calls
\* made so far ("none" when none of them was called).
RECURSIVE LastLifecycleCall(_)
LastLifecycleCall(calls) ==
    IF calls = <<>> THEN "none"
    ELSE IF calls[Len(calls)] \in {"initialize_database", "reset_database", "close"}
        THEN calls[Len(calls)]
    ELSE LastLifecycleCall(SubSeq(calls, 1, Len(calls) - 1))

\* The step is a call of the method.
Calls(method) == db_calls' = Append(db_calls, method)

\* C26: after reset_database() or close(), every add_chunks or search call
\* raises RuntimeError and neither stores nor returns anything until
\* initialize_database() is called again; reset_database() on a database
\* that is not initialised changes no state.
C26_UninitialisedCallsRaise ==
    /\ [][((Calls("add_chunks") \/ Calls("search"))
             /\ LastLifecycleCall(db_calls) \in {"reset_database", "close"})
            => (last_result' = "RuntimeError" /\ stored' = stored)]_vars
    /\ [][(Calls("reset_database") /\ LastLifecycleCall(db_calls) # "initialize_database")
            => UNCHANGED <<document_model, code_model, constructed, client_open,
                           collection_open, stored>>]_vars

\* Two chunks were stored, the database was closed, and the search that
\* followed raised RuntimeError with the store as it was.
C26_Witness ==
    /\ db_calls = <<"initialize_database", "add_chunks", "close", "search">>
    /\ last_result = "RuntimeError"
    /\ stored = 2

(***************************************************************************)
(* Properties of process_chunk under two workers                           *)
(***************************************************************************)
\* The positions of the log where a membership test was made on the hash of
\* the event at position p, and those where that hash was inserted.
TestsOfHash(p) ==
    {q \in 1..Len(wlog) :
        /\ wlog[q].event \in {"passed", "duplicate"}
        /\ compute_chunk_hash(wlog[q].chunk) = compute_chunk_hash(wlog[p].chunk)}

InsertsOfHash(p) ==
    {q \in 1..Len(wlog) :
        /\ wlog[q].event = "insert"
        /\ compute_chunk_hash(wlog[q].chunk) = compute_chunk_hash(wlog[p].chunk)}

\* The position of the membership test of the call that inserted at p.
TestOfInsert(p) ==
    SetMax({q \in 1..(p - 1) : wlog[q].worker = wlog[p].worker /\ wlog[q].event = "passed"})

\* At most one record per hash is accepted, and it is the first to arrive.
FirstArrivalWins ==
    \A p \in 1..Len(wlog) :
        wlog[p].event = "insert" =>
            /\ InsertsOfHash(p) = {p}
            /\ TestOfInsert(p) = SetMin(TestsOfHash(p))

\* No call runs between the membership test and the insert of another call.
Serialized ==
    \A p \in 1..Len(wlog) :
        wlog[p].event = "passed" =>
            (p = Len(wlog) \/ (wlog[p + 1].event = "insert" /\ wlog[p + 1].worker = wlog[p].worker))

\* C29 as stated: with two workers sharing one set of seen hashes, under
\* every interleaving at most one chunk per hash value is accepted and it is
\* the first one to arrive: the membership test and the insert take effect
\* as one atomic step.
C29_FirstArrivalWinsUnderEveryInterleaving == FirstArrivalWins

\* C29 amended: the membership test and the insert of process_chunk are two
\* steps with no lock between them.  When the calls are serialized, as in
\* ingest_files, at most one chunk per hash is accepted and it is the first
\* to arrive; a chunk tested after its hash was inserted is always turned
\* away; two chunks of one hash are both accepted only when the second
\* worker made its test before the first inserted.
C29_FirstArrivalWinsWhenSerialized ==
    /\ Serialized => FirstArrivalWins
    /\ \A p \in 1..Len(wlog) :
          wlog[p].event = "passed" => \A q \in InsertsOfHash(p) : q > p
    /\ \A p \in 1..Len(wlog) :
          wlog[p].event = "insert" =>
              \A q \in InsertsOfHash(p) : q < p => TestOfInsert(p) < q

\* Worker 1 tested and inserted a record; worker 2 then arrived with another
\* record of the same hash and was turned away.
C29_Witness ==
    /\ Len(wlog) = 3
    /\ wlog[1].worker = 1 /\ wlog[1].event = "passed"
    /\ wlog[2].worker = 1 /\ wlog[2].event = "insert"
    /\ wlog[3].worker = 2 /\ wlog[3].event = "duplicate"
    /\ wlog[3].chunk # wlog[1].chunk

(***************************************************************************)
(* Properties of search                                                    *)
(***************************************************************************)
\* C6: given the store returns its candidates in ascending distance, the list
\* search returns is ordered by non-increasing similarity_score and keeps the
\* store's order (ranks, the candidates' positions, increase).
C6_ResultsOrderedBySimilarity ==
    \A i \in 1..(Len(formatted_results) - 1) :
        /\ formatted_results[i].similarity_score >= formatted_results[i + 1].similarity_score
        /\ formatted_results[i].rank < formatted_results[i + 1].rank

\* Two results with different scores were returned.
C6_Witness ==
    /\ spc = "returned"
    /\ Len(formatted_results) = 2
    /\ formatted_results[1].similarity_score > formatted_results[2].similarity_score

\* C7: for every threshold of [0, 1] passed explicitly, search returns exactly
\* the candidates whose similarity is at least that threshold.
C7_ExplicitThresholdIsApplied ==
    (spc = "returned" /\ threshold_arg # {}) =>
        LET t == CHOOSE x \in threshold_arg : TRUE IN
        \A i \in 1..Len(distances) :
            (similarities[i] >= t) <=>
                (\E k \in 1..Len(formatted_results) : formatted_results[k].rank = i)

\* C8 as stated: similarity maps distance 0 to exactly 1, is strictly
\* decreasing in the distance and lies in (0, 1] for every distance >= 0.
C8_SimilarityStrictlyDecreasing ==
    /\ \A i \in 1..Len(distances) :
          /\ distances[i] = 0 => similarities[i] = One
          /\ 0 < similarities[i] /\ similarities[i] <= One
    /\ \A i, j \in 1..Len(distances) :
          distances[i] < distances[j] => similarities[i] > similarities[j]

\* C8 amended: similarity maps distance 0 to exactly 1, is non-increasing in
\* the distance (distinct distances can get the same similarity, the quotient
\* being rounded) and lies in (0, 1] for every finite distance >= 0.
C8_SimilarityNonIncreasing ==
    /\ \A i \in 1..Len(distances) :
          /\ distances[i] = 0 => similarities[i] = One
          /\ 0 < similarities[i] /\ similarities[i] <= One
    /\ \A i, j \in 1..Len(distances) :
          distances[i] < distances[j] => similarities[i] >= similarities[j]

\* A query whose candidates are at distance 0 and at the largest distance.
C8_Witness ==
    /\ spc = "returned"
    /\ Len(distances) = 2
    /\ distances[1] = 0 /\ similarities[1] = One
    /\ distances[2] = MaxFloat /\ similarities[2] < Half

\* C27: the rank values of the results returned by one search call are
\* exactly 1, 2, ..., n in list order with no gap, given the store returns
\* its candidates in ascending distance: the candidates dropped by the
\* threshold form a suffix of the candidate list.
C27_RanksAreConsecutive ==
    (spc = "returned" /\ IsAscending(distances)) =>
        /\ \A k \in 1..Len(formatted_results) : formatted_results[k].rank = k
        /\ \A i \in 1..Len(distances) :
              (i <= Len(formatted_results)) <=> (similarities[i] >= EffectiveThreshold)

\* A query with two candidates of which the threshold dropped the second.
C27_Witness ==
    /\ spc = "returned"
    /\ Len(distances) = 2
    /\ Len(formatted_results) = 1
    /\ formatted_results[1].rank = 1
    /\ similarities[2] < EffectiveThreshold

====
